---- MODULE Spec2Model ----
(***************************************************************************)
(* Praise-card generator and wall (praise-cards/src/app/page.tsx).         *)
(*                                                                         *)
(* Units.  Canvas lengths are real numbers in the source.  Every length    *)
(* the renderer computes is a multiple of 1/100 px for integer canvas      *)
(* sizes and integer slider percentages, so lengths are integers counted   *)
(* in 1/100 px ("centi-pixels", cpx) unless a definition says otherwise.   *)
(* Font sizes and canvas width/height are integers in px, as in the        *)
(* source (Math.floor / Math.ceil results).                                *)
(*                                                                         *)
(* Text.  A string is a sequence of one-character strings.                 *)
(***************************************************************************)
EXTENDS Integers, Sequences, FiniteSets, TLC

VARIABLES
    \* --- the generator page (PraiseGenerator, page.tsx:1650-2800) ---------
    quoteText,     \* quoteText.value
    authorText,    \* authorText.value
    formatSelect,  \* formatSelect.value
    countSelect,   \* countSelect.value, as a number
    radiusSelect,  \* radiusSelect.value, as a number
    stylePack,     \* stylePack.value
    liveUpdate,    \* liveUpdate.checked
    quoteSize,     \* quoteSize.value, as a number (percent)
    authorSize,    \* authorSize.value, as a number (percent)
    toast,         \* toast.textContent
    designsCache,  \* let designsCache: Design[]
    cardState,     \* let cardState: CardState[]
    domCards,      \* let domCards: the canvases on the page, in order
    \* --- the environment ------------------------------------------------
    now,           \* Date.now()
    prng,          \* the table behind Math.sin in seededRandom (see below)
    \* --- one function call under check --------------------------------
    pc,            \* position of the call: "call", positions inside, "done"
    args,          \* its arguments
    locals,        \* its local variables, for a call checked step by step
    ret,           \* the value it returned
    \* --- what the page's cards do beyond drawing ------------------------
    feed,          \* the praiseWall list of the database: the records appended
    uploads,       \* the calls of uploadToWall so far, each with its outcome
    drag,          \* the closure of attachResize of the handle last pressed
    \* --- the paginated wall page (PraiseWallPage, page.tsx:36-720) ---------
    cards,         \* useState: the card list
    loading,       \* useState
    loadingMore,   \* useState
    hasMore,       \* useState
    observer,      \* the state the attached IntersectionObserver closed over
    fetches,       \* the calls of fetchPage waiting at their await
    \* --- the realtime wall page (PraiseWallPage, page.tsx:890-1623) --------
    realtime       \* its useState values: [cards, loading]

domVars == <<quoteText, authorText, formatSelect, countSelect, radiusSelect,
             stylePack, liveUpdate, quoteSize, authorSize, toast>>
cardVars == <<designsCache, cardState, domCards>>
envVars == <<now, prng>>
callVars == <<pc, args, locals, ret>>
wallVars == <<cards, loading, loadingMore, hasMore, observer, fetches, realtime>>
ioVars == <<feed, uploads, drag, wallVars>>
vars == <<domVars, cardVars, envVars, callVars, ioVars>>

(***************************************************************************)
(* Catalogs and control options of the generator page.                     *)
(***************************************************************************)
\* JS null in a CardState field; canvas sizes are positive
NULL == -1

FORMATS ==
    [square    |-> [minWidth |-> 1080, minHeight |-> 1080],
     portrait  |-> [minWidth |-> 1080, minHeight |-> 1350],
     landscape |-> [minWidth |-> 1600, minHeight |-> 900]]

PALETTES == <<
    [bg |-> "#FFF5F5", text |-> "#2D3748", accent |-> "#E53E3E"],
    [bg |-> "#EBF8FF", text |-> "#1A365D", accent |-> "#2B6CB0"],
    [bg |-> "#F0FFF4", text |-> "#1C4532", accent |-> "#2F855A"],
    [bg |-> "#FFFAF0", text |-> "#5F370E", accent |-> "#DD6B20"],
    [bg |-> "#FAF5FF", text |-> "#2A1F55", accent |-> "#6B46C1"],
    [bg |-> "#FFF5F7", text |-> "#521B41", accent |-> "#B83280"],
    [bg |-> "#E6FFFA", text |-> "#234E52", accent |-> "#2C7A7B"],
    [bg |-> "#F7FAFC", text |-> "#1A202C", accent |-> "#4A5568"],
    [bg |-> "#0B1020", text |-> "#E6E6EA", accent |-> "#7C3AED"],
    [bg |-> "#0F172A", text |-> "#E2E8F0", accent |-> "#38BDF8"],
    [bg |-> "#111827", text |-> "#F9FAFB", accent |-> "#F59E0B"] >>

GRADIENTS == <<
    <<"#667eea", "#764ba2">>, <<"#4facfe", "#00f2fe">>, <<"#f093fb", "#f5576c">>,
    <<"#43e97b", "#38f9d7">>, <<"#fa709a", "#fee140">>, <<"#30cfd0", "#330867">>,
    <<"#a8edea", "#fed6e3">>, <<"#ff9a9e", "#fad0c4">>, <<"#1f2937", "#111827">>,
    <<"#0ea5e9", "#22c55e">> >>

FONTS == <<
    [quote |-> "Georgia, serif", author |-> "Georgia, serif"],
    [quote |-> "Palatino, serif", author |-> "Palatino, serif"],
    [quote |-> "Garamond, serif", author |-> "Garamond, serif"],
    [quote |-> "-apple-system, BlinkMacSystemFont, sans-serif",
     author |-> "-apple-system, BlinkMacSystemFont, sans-serif"],
    [quote |-> "Trebuchet MS, sans-serif", author |-> "Trebuchet MS, sans-serif"],
    [quote |-> "Verdana, sans-serif", author |-> "Verdana, sans-serif"] >>

STYLE_PACKS ==
    [balanced |-> [bgTypes |-> <<"solid", "gradient", "paper", "noise", "halftone",
                                 "blobs", "glass", "stripes">>,
                   layouts |-> <<"centered", "left", "split", "underline", "footer",
                                 "corner-frame", "diagonal">>],
     bold     |-> [bgTypes |-> <<"gradient", "dark", "stripes", "blobs">>,
                   layouts |-> <<"split", "diagonal", "side-stripe", "corner-frame">>],
     minimal  |-> [bgTypes |-> <<"solid", "paper">>,
                   layouts |-> <<"centered", "left", "underline", "footer", "bordered">>],
     playful  |-> [bgTypes |-> <<"gradient", "halftone", "blobs", "noise", "paper">>,
                   layouts |-> <<"icon-top", "split", "diagonal", "underline">>]]

\* the <option> values of the <select> controls and the range of the sliders
FormatOptions == {"square", "portrait", "landscape"}
CountOptions == {6, 9, 12}
RadiusOptions == {18, 26, 34}
StylePackOptions == {"balanced", "bold", "minimal", "playful"}

\* the controls as React first renders them (defaultValue / defaultChecked),
\* and no card yet
ControlsAtDefault ==
    /\ quoteText = <<>>
    /\ authorText = <<>>
    /\ formatSelect = "square"
    /\ countSelect = 6
    /\ radiusSelect = 26
    /\ liveUpdate = TRUE
    /\ toast = ""
NoCards ==
    /\ designsCache = <<>>
    /\ cardState = <<>>
    /\ domCards = <<>>

\* nothing published, and no resize handle pressed yet: the variables of
\* attachResize as it declares them
NoDrag == [dragging |-> FALSE, index |-> NULL, startW |-> 0, startH |-> 0]
\* the wall pages as their useState calls start them, nothing fetched
NoWall ==
    /\ cards = <<>> /\ loading = TRUE /\ loadingMore = FALSE /\ hasMore = TRUE
    /\ observer = [cards |-> <<>>, hasMore |-> TRUE, loadingMore |-> FALSE]
    /\ fetches = <<>>
    /\ realtime = [cards |-> <<>>, loading |-> TRUE]
NoIO ==
    /\ feed = <<>>
    /\ uploads = <<>>
    /\ drag = NoDrag
    /\ NoWall

\* the values the code reads off the controls (quoteText.value, ...,
\* liveUpdate.checked)
Dom ==
    [quoteText |-> quoteText, authorText |-> authorText,
     formatSelect |-> formatSelect, countSelect |-> countSelect,
     radiusSelect |-> radiusSelect, stylePack |-> stylePack,
     liveUpdate |-> liveUpdate, quoteSize |-> quoteSize,
     authorSize |-> authorSize]

Max(a, b) == IF a >= b THEN a ELSE b
Min(a, b) == IF a <= b THEN a ELSE b

\* F(x), with x evaluated once: a local (const v = x) that F reads many
\* times
With(x, F(_)) == CHOOSE r \in {F(v) : v \in {x}} : TRUE

(***************************************************************************)
(* Text measurement: CanvasRenderingContext2D.measureText(s).width.        *)
(* The canvas is an external collaborator.  It is modelled by per-glyph    *)
(* advances in 1/100 em, scaled by the font size of the context, minus a   *)
(* pair kerning the shaping engine applies to the pair "W","a" (so the     *)
(* measure is not additive).  ctx = [font |-> px, kern |-> 1/100 em].      *)
(***************************************************************************)
Whitespace == {" ", "\t"}
Glyphs == {"a", "W"}

Advance(ch) == CASE ch = "a" -> 50
                 [] ch = "W" -> 100
                 [] OTHER -> 25

RECURSIVE AdvanceSum(_, _)
AdvanceSum(s, kern) ==
    IF s = <<>> THEN 0
    ELSE Advance(Head(s))
         - (IF Len(s) >= 2 /\ s[1] = "W" /\ s[2] = "a" THEN kern ELSE 0)
         + AdvanceSum(Tail(s), kern)

\* ctx.measureText(s).width, in cpx
measureText(ctx, s) == ctx.font * AdvanceSum(s, ctx.kern)

(***************************************************************************)
(* wrapTextSmart                                                           *)
(***************************************************************************)
\* text.split(/\s+/).filter(Boolean): the maximal runs of non-whitespace
RECURSIVE SplitWs(_, _, _)
SplitWs(text, tokens, cur) ==
    IF text = <<>> THEN (IF cur # <<>> THEN Append(tokens, cur) ELSE tokens)
    ELSE IF Head(text) \in Whitespace
         THEN SplitWs(Tail(text), IF cur # <<>> THEN Append(tokens, cur) ELSE tokens, <<>>)
         ELSE SplitWs(Tail(text), tokens, Append(cur, Head(text)))

Tokenize(text) == SplitWs(text, <<>>, <<>>)

\* const push = () => { if (current) lines.push(current); current = ""; }
pushAlways(lines, current) == Append(lines, current)
push(lines, current) == IF current # <<>> THEN Append(lines, current) ELSE lines

\* one iteration of  for (const ch of tok)  on st = [lines, chunk]
splitStepDrop(ctx, maxWidth, st, ch) ==
    LET t == Append(st.chunk, ch) IN
    IF measureText(ctx, t) <= maxWidth
    THEN [lines |-> st.lines, chunk |-> t]
    ELSE [lines |-> IF st.chunk # <<>> THEN Append(st.lines, st.chunk) ELSE st.lines,
          chunk |-> <<>>]
splitStep(ctx, maxWidth, st, ch) ==
    LET t == Append(st.chunk, ch) IN
    IF measureText(ctx, t) <= maxWidth
    THEN [lines |-> st.lines, chunk |-> t]
    ELSE [lines |-> IF st.chunk # <<>> THEN Append(st.lines, st.chunk) ELSE st.lines,
          chunk |-> <<ch>>]

RECURSIVE splitToken(_, _, _, _)
splitToken(ctx, maxWidth, st, tok) ==
    IF tok = <<>> THEN st
    ELSE With(splitStep(ctx, maxWidth, st, Head(tok)),
              LAMBDA s : splitToken(ctx, maxWidth, s, Tail(tok)))

\* one iteration of  for (const tok of tokens)  on st = [lines, current]
wrapStepNoSplit(ctx, maxWidth, st, tok) ==
    LET test == IF st.current # <<>> THEN st.current \o <<" ">> \o tok ELSE tok IN
    IF measureText(ctx, test) <= maxWidth
    THEN [lines |-> st.lines, current |-> test]
    ELSE [lines |-> push(st.lines, st.current), current |-> tok]
wrapStep(ctx, maxWidth, st, tok) ==
    LET test == IF st.current # <<>> THEN st.current \o <<" ">> \o tok ELSE tok IN
    IF measureText(ctx, test) <= maxWidth
    THEN [lines |-> st.lines, current |-> test]
    ELSE LET flushed == push(st.lines, st.current) IN
         IF measureText(ctx, tok) <= maxWidth
         THEN [lines |-> flushed, current |-> tok]
         ELSE LET sp == splitToken(ctx, maxWidth, [lines |-> flushed, chunk |-> <<>>], tok)
              IN [lines |-> sp.lines, current |-> sp.chunk]

RECURSIVE wrapLoop(_, _, _, _)
wrapLoop(ctx, maxWidth, st, tokens) ==
    IF tokens = <<>> THEN st
    ELSE With(wrapStep(ctx, maxWidth, st, Head(tokens)),
              LAMBDA s : wrapLoop(ctx, maxWidth, s, Tail(tokens)))

wrapTextSmart(ctx, text, maxWidth) ==
    LET st == wrapLoop(ctx, maxWidth, [lines |-> <<>>, current |-> <<>>], Tokenize(text))
    IN push(st.lines, st.current)

(***************************************************************************)
(* Specification SpecWrap: one call of wrapTextSmart on every text of at   *)
(* most MaxTextLen characters, every maxWidth of at most MaxWidthSteps     *)
(* quarter-ems, with and without kerning.                                  *)
(***************************************************************************)
MaxTextLen == 5
MaxWidthSteps == 6
KernStep == 25

RECURSIVE Texts(_)
Texts(n) == IF n = 0 THEN {<<>>}
            ELSE LET shorter == Texts(n - 1) IN
                 shorter \cup {Append(s, c) : s \in {t \in shorter : Len(t) = n - 1},
                                              c \in Glyphs \cup Whitespace}

InitWrap ==
    /\ pc = "call"
    /\ args \in [text : Texts(MaxTextLen),
                 maxWidth : {25 * k : k \in 1..MaxWidthSteps},
                 ctx : [font : {1}, kern : {0, KernStep}]]
    /\ ret = <<>>
    /\ locals = <<>>
    /\ ControlsAtDefault /\ NoCards
    /\ stylePack = "balanced" /\ quoteSize = 95 /\ authorSize = 105
    /\ now = 0 /\ prng = 1
    /\ NoIO

CallWrap ==
    /\ pc = "call"
    /\ pc' = "done"
    /\ ret' = wrapTextSmart(args.ctx, args.text, args.maxWidth)
    /\ UNCHANGED <<args, locals, domVars, cardVars, envVars, ioVars>>

NextWrap == CallWrap

SpecWrap == InitWrap /\ [][NextWrap]_vars

WrapDone == pc = "done" /\ "maxWidth" \in DOMAIN args /\ "text" \in DOMAIN args

\* some token of the text does not fit maxWidth on its own
HasLongToken ==
    \E i \in DOMAIN Tokenize(args.text) :
        measureText(args.ctx, Tokenize(args.text)[i]) > args.maxWidth

(* C2 (as amended): every line wrapTextSmart returns measures at most      *)
(* maxWidth, except a line that is one single character whose own width    *)
(* exceeds maxWidth.                                                       *)
C2_LinesFitOrSingleGlyph ==
    WrapDone =>
        \A i \in DOMAIN ret :
            \/ measureText(args.ctx, ret[i]) <= args.maxWidth
            \/ Len(ret[i]) = 1

\* a token was character-split into chunks that all fit
C2_Witness ==
    /\ WrapDone
    /\ HasLongToken
    /\ Len(ret) >= 3
    /\ \A i \in DOMAIN ret : measureText(args.ctx, ret[i]) <= args.maxWidth

(* C2 (as claimed): every line wrapTextSmart returns measures at most      *)
(* maxWidth, for every text and every maxWidth > 0.                        *)
C2_Original_EveryLineFits ==
    WrapDone =>
        \A i \in DOMAIN ret : measureText(args.ctx, ret[i]) <= args.maxWidth

\* the pieces of a line between single spaces (an empty piece shows a
\* leading, trailing or doubled space)
RECURSIVE SplitSpaces(_, _, _)
SplitSpaces(line, pieces, cur) ==
    IF line = <<>> THEN Append(pieces, cur)
    ELSE IF Head(line) = " "
         THEN SplitSpaces(Tail(line), Append(pieces, cur), <<>>)
         ELSE SplitSpaces(Tail(line), pieces, Append(cur, Head(line)))

RECURSIVE PiecesOf(_)
PiecesOf(lines) ==
    IF lines = <<>> THEN <<>>
    ELSE LET ws == SplitSpaces(Head(lines), <<>>, <<>>) IN
         [k \in 1..Len(ws) |-> [w |-> ws[k], first |-> k = 1]] \o PiecesOf(Tail(lines))

IsPrefix(p, s) == Len(p) <= Len(s) /\ SubSeq(s, 1, Len(p)) = p

\* The pieces spell the tokens in order: a piece is a whole token or the
\* next chunk of the token being spelled; a token continues only across a
\* line break; only a token that does not fit maxWidth is in chunks.
RECURSIVE Spells(_, _, _, _, _)
Spells(pieces, tokens, partial, ctx, maxWidth) ==
    IF pieces = <<>> THEN tokens = <<>> /\ partial = <<>>
    ELSE /\ tokens # <<>>
         /\ Head(pieces).w # <<>>
         /\ partial # <<>> => Head(pieces).first
         /\ LET acc == partial \o Head(pieces).w
                tok == Head(tokens) IN
            IF acc = tok
            THEN /\ partial # <<>> => measureText(ctx, tok) > maxWidth
                 /\ Spells(Tail(pieces), Tail(tokens), <<>>, ctx, maxWidth)
            ELSE /\ IsPrefix(acc, tok)
                 /\ Spells(Tail(pieces), tokens, acc, ctx, maxWidth)

(* C3: wrapTextSmart is lossless.  The lines, in order, hold exactly the   *)
(* whitespace-separated tokens of the text in their order; tokens on one   *)
(* line are separated by one space; a token that fits maxWidth is whole on *)
(* one line; the chunks of a character-split token concatenate to it.      *)
C3_Lossless ==
    WrapDone =>
        Spells(PiecesOf(ret), Tokenize(args.text), <<>>, args.ctx, args.maxWidth)

\* a split token, a line of two tokens, and a run of two whitespace
\* characters in the text
C3_Witness ==
    /\ WrapDone
    /\ HasLongToken
    /\ \E i \in DOMAIN ret : \E k \in DOMAIN ret[i] : ret[i][k] = " "
    /\ \E k \in 1..(Len(args.text) - 1) :
           args.text[k] \in Whitespace /\ args.text[k + 1] \in Whitespace

(* C4: wrapTextSmart returns no line for an empty or all-whitespace text,  *)
(* and no returned line is the empty string.                               *)
C4_NoEmptyLine ==
    WrapDone =>
        /\ (\A k \in DOMAIN args.text : args.text[k] \in Whitespace) => ret = <<>>
        /\ \A i \in DOMAIN ret : ret[i] # <<>>

\* a text of whitespace only, wrapped to zero lines
C4_Witness ==
    /\ WrapDone
    /\ Len(args.text) >= 2
    /\ \A k \in DOMAIN args.text : args.text[k] \in Whitespace
    /\ ret = <<>>

(***************************************************************************)
(* computeSafeStartY (the wall renderer inlines the same three clamps,     *)
(* page.tsx:483-486).  blockH is even in every use (see totalH below), so  *)
(* blockH / 2 is exact.                                                    *)
(***************************************************************************)
computeSafeStartYNoReclamp(contentY, blockH, safeTop, safeBottom) ==
    LET y0 == contentY - blockH \div 2
        y1 == IF y0 < safeTop THEN safeTop ELSE y0
    IN IF y1 + blockH > safeBottom THEN safeBottom - blockH ELSE y1
computeSafeStartY(contentY, blockH, safeTop, safeBottom) ==
    LET y0 == contentY - blockH \div 2
        y1 == IF y0 < safeTop THEN safeTop ELSE y0
        y2 == IF y1 + blockH > safeBottom THEN safeBottom - blockH ELSE y1
    IN IF y2 < safeTop THEN safeTop ELSE y2

(***************************************************************************)
(* Specification SpecClamp: one call of computeSafeStartY on every         *)
(* combination of coordinates up to MaxCoord and even block heights up to  *)
(* 2 * MaxCoord.                                                           *)
(***************************************************************************)
MaxCoord == 6

InitClamp ==
    /\ pc = "call"
    /\ args \in [contentY : (0 - MaxCoord)..MaxCoord,
                 blockH : {2 * k : k \in 0..MaxCoord},
                 safeTop : 0..MaxCoord,
                 safeBottom : 0..MaxCoord]
    /\ ret = 0
    /\ locals = <<>>
    /\ ControlsAtDefault /\ NoCards
    /\ stylePack = "balanced" /\ quoteSize = 95 /\ authorSize = 105
    /\ now = 0 /\ prng = 1
    /\ NoIO

CallClamp ==
    /\ pc = "call"
    /\ pc' = "done"
    /\ ret' = computeSafeStartY(args.contentY, args.blockH, args.safeTop, args.safeBottom)
    /\ UNCHANGED <<args, locals, domVars, cardVars, envVars, ioVars>>

NextClamp == CallClamp

SpecClamp == InitClamp /\ [][NextClamp]_vars

(* C5: for 0 <= blockH <= safeBottom - safeTop the returned y keeps the    *)
(* block inside [safeTop, safeBottom]; for blockH > safeBottom - safeTop   *)
(* the returned y is safeTop.                                              *)
C5_ClampContainment ==
    pc = "done" =>
        /\ (0 <= args.blockH /\ args.blockH <= args.safeBottom - args.safeTop)
               => (args.safeTop <= ret /\ ret + args.blockH <= args.safeBottom)
        /\ args.blockH > args.safeBottom - args.safeTop => ret = args.safeTop

\* an over-tall block centred below the top margin: the bottom clamp pushes
\* it above safeTop and the re-clamp pins it
C5_Witness ==
    /\ pc = "done"
    /\ args.safeTop < args.safeBottom
    /\ args.blockH > args.safeBottom - args.safeTop
    /\ args.contentY - args.blockH \div 2 > args.safeTop
    /\ ret = args.safeTop

(***************************************************************************)
(* seededRandom, pick, generateDesign                                      *)
(*                                                                         *)
(* seededRandom(seed) is the fractional part of 10000 * sin(seed), a pure  *)
(* function of the seed into [0, 1).  The sine is not expressible here, so *)
(* the function is a parameter: prng selects one of a family of functions  *)
(* of the seed (prng = 0 is the constant function, the case in which every *)
(* attempt of makeDesigns collides).  A value is the numerator of a        *)
(* fraction over RandMod.                                                  *)
(***************************************************************************)
RandMod == 12

seededRandom(seed) == (seed * prng) % RandMod

\* arr[Math.floor(seededRandom(seed) * arr.length)]
pick(arr, seed) == arr[(seededRandom(seed) * Len(arr)) \div RandMod + 1]

Range(seq) == {seq[k] : k \in DOMAIN seq}

\* STYLE_PACKS is an object literal: a lookup by a name it does not own
\* goes to Object.prototype, and STYLE_PACKS["constructor"] is a function
\* (truthy), so the  || STYLE_PACKS.balanced  default is not taken.
ObjectPrototypeKeys == {"constructor", "toString", "valueOf", "hasOwnProperty"}
TypeError == [threw |-> "TypeError"]

\* STYLE_PACKS[stylePack.value] || STYLE_PACKS.balanced
packLookup(name) ==
    IF name \in DOMAIN STYLE_PACKS THEN STYLE_PACKS[name]
    ELSE IF name \in ObjectPrototypeKeys THEN [inherited |-> name]
    ELSE STYLE_PACKS.balanced

\* seed++ after each pick: the Design carries seed + 5.  With a pack that
\* has no bgTypes, pick(pack.bgTypes, ...) reads undefined.length and throws.
\* dom is the values of the controls at the time of the call (Dom).
generateDesign(dom, seed) ==
    LET pack == packLookup(dom.stylePack) IN
    IF "bgTypes" \notin DOMAIN pack THEN TypeError
    ELSE [palette  |-> pick(PALETTES, seed),
          gradient |-> pick(GRADIENTS, seed + 1),
          font     |-> pick(FONTS, seed + 2),
          bgType   |-> pick(pack.bgTypes, seed + 3),
          layout   |-> pick(pack.layouts, seed + 4),
          seed     |-> seed + 5]

(***************************************************************************)
(* Specification SpecPick: one call of generateDesign for every seed up to *)
(* MaxSeed, every member of the prng family up to MaxPrng, and the pack    *)
(* names the <select> offers plus names outside the catalog.               *)
(***************************************************************************)
MaxSeed == 23
MaxPrng == 2
PackNames == StylePackOptions \cup {"", "retro", "constructor"}

InitPick ==
    /\ pc = "call"
    /\ args \in [seed : 0..MaxSeed]
    /\ ret = <<>>
    /\ locals = <<>>
    /\ ControlsAtDefault /\ NoCards
    /\ stylePack \in PackNames
    /\ quoteSize = 95 /\ authorSize = 105
    /\ now = 0
    /\ prng \in 0..MaxPrng
    /\ NoIO

CallPick ==
    /\ pc = "call"
    /\ pc' = "done"
    /\ ret' = generateDesign(Dom, args.seed)
    /\ UNCHANGED <<args, locals, domVars, cardVars, envVars, ioVars>>

NextPick == CallPick

SpecPick == InitPick /\ [][NextPick]_vars

\* the pack the claim assigns to a name: its own, or balanced when the name
\* is not in the catalog
ClaimedPack(name) ==
    IF name \in StylePackOptions THEN STYLE_PACKS[name] ELSE STYLE_PACKS.balanced

IsDesignOf(d, pack) ==
    /\ d # TypeError
    /\ d.bgType \in Range(pack.bgTypes)
    /\ d.layout \in Range(pack.layouts)
    /\ d.palette \in Range(PALETTES)
    /\ d.gradient \in Range(GRADIENTS)
    /\ d.font \in Range(FONTS)

C8_DesignFromPack_OwnOrMissingName ==
    (pc = "done" /\ stylePack \notin ObjectPrototypeKeys)
        => IsDesignOf(ret, ClaimedPack(stylePack))

\* a name outside the catalog served from the balanced arrays, with a
\* layout the minimal pack does not have
C8_Witness ==
    /\ pc = "done"
    /\ stylePack = "retro"
    /\ ret # TypeError
    /\ ret.layout = "corner-frame"

(***************************************************************************)
(* makeDesigns.  The function is given as the steps of its loops on a      *)
(* record s of its local variables, so that it can be run step by step     *)
(* (SpecDesign) and as one call (makeDesigns, used by renderAll).          *)
(*   s.pc: "attempt" (before a do-body), "accept" (after the do-while),    *)
(*         "return" (after the for loop), "threw" (generateDesign threw)   *)
(* History fields, not in the source: s.seeds (the seeds the current card  *)
(* has tried), s.fresh (no attempt of any card reused one of its seeds),   *)
(* s.collided (attempts of the current card whose hash was already used)   *)
(* and s.log (per accepted card: its attempts, and how many collided).     *)
(***************************************************************************)
MaxTries == 60
CardSeedStride == 1000
RetrySeedStride == 111

\* PALETTES.indexOf(d.palette)
IndexOf(seq, x) == (CHOOSE k \in DOMAIN seq : seq[k] = x) - 1

\* `${d.bgType}-${d.layout}-${PALETTES.indexOf(d.palette)}-${d.font.quote}`:
\* no bgType holds "-" and no layout name is a prefix of another, so the
\* string determines the four parts and is modelled by the tuple
designHash(d) == <<d.bgType, d.layout, IndexOf(PALETTES, d.palette), d.font.quote>>

\* const seed = baseSeed + i * 1000 + tries * 111
attemptSeedNoRetryStride(baseSeed, i, tries) == baseSeed + i * CardSeedStride
attemptSeed(baseSeed, i, tries) ==
    baseSeed + i * CardSeedStride + tries * RetrySeedStride

mdStart(count) ==
    [pc |-> IF 0 < count THEN "attempt" ELSE "return",
     count |-> count, baseSeed |-> now, i |-> 0, tries |-> 0,
     d |-> <<>>, hash |-> <<>>, used |-> {}, designs |-> <<>>,
     seeds |-> {}, fresh |-> TRUE, collided |-> 0, log |-> <<>>]

\* one pass of  do { ... } while (used.has(hash) && tries < 60)
mdAttempt(dom, s) ==
    LET seed == attemptSeed(s.baseSeed, s.i, s.tries)
        d == generateDesign(dom, seed)
    IN IF d = TypeError THEN [s EXCEPT !.pc = "threw"]
       ELSE LET hash == designHash(d)
                tries == s.tries + 1
            IN [s EXCEPT !.d = d, !.hash = hash, !.tries = tries,
                         !.pc = IF hash \in s.used /\ tries < MaxTries
                                THEN "attempt" ELSE "accept",
                         !.seeds = s.seeds \cup {seed},
                         !.fresh = s.fresh /\ seed \notin s.seeds,
                         !.collided = s.collided + (IF hash \in s.used THEN 1 ELSE 0)]

\* used.add(hash); designs.push(d); i++ and the test of the for loop, whose
\* body starts with tries = 0, hash = ""
mdAcceptNoAdd(s) ==
    [s EXCEPT !.designs = Append(s.designs, s.d),
              !.i = s.i + 1, !.tries = 0, !.hash = <<>>,
              !.pc = IF s.i + 1 < s.count THEN "attempt" ELSE "return",
              !.seeds = {}, !.collided = 0,
              !.log = Append(s.log, [tries |-> s.tries, collided |-> s.collided])]
mdAccept(s) ==
    [s EXCEPT !.used = s.used \cup {s.hash},
              !.designs = Append(s.designs, s.d),
              !.i = s.i + 1, !.tries = 0, !.hash = <<>>,
              !.pc = IF s.i + 1 < s.count THEN "attempt" ELSE "return",
              !.seeds = {}, !.collided = 0,
              !.log = Append(s.log, [tries |-> s.tries, collided |-> s.collided])]

\* the do-while of one card run to its end: the passes up to the first
\* whose hash is not used, or all MaxTries of them (MdStepsAgree checks it
\* against the passes taken one by one)
mdTries(dom, s) ==
    LET seedAt(t) == attemptSeed(s.baseSeed, s.i, t)
        collides(t) == designHash(generateDesign(dom, seedAt(t))) \in s.used
        rest == s.tries..(MaxTries - 1)
    IN IF generateDesign(dom, seedAt(s.tries)) = TypeError THEN mdAttempt(dom, s)
       ELSE With(IF \E t \in rest : ~collides(t)
                 THEN 1 + CHOOSE t \in rest :
                              ~collides(t) /\ \A u \in s.tries..(t - 1) : collides(u)
                 ELSE MaxTries,
                 LAMBDA n :
            With(generateDesign(dom, seedAt(n - 1)), LAMBDA d :
                 [s EXCEPT
                      !.d = d, !.hash = designHash(d), !.tries = n, !.pc = "accept",
                      !.seeds = s.seeds \cup {seedAt(t) : t \in s.tries..(n - 1)},
                      !.fresh = /\ s.fresh
                                /\ \A t \in s.tries..(n - 1) :
                                       /\ seedAt(t) \notin s.seeds
                                       /\ \A u \in s.tries..(t - 1) : seedAt(u) # seedAt(t),
                      !.collided = s.collided
                                   + Cardinality({t \in s.tries..(n - 1) : collides(t)})]))

RECURSIVE mdRun(_, _)
mdRun(dom, s) ==
    CASE s.pc = "attempt" -> With(mdTries(dom, s), LAMBDA t : mdRun(dom, t))
      [] s.pc = "accept" -> With(mdAccept(s), LAMBDA t : mdRun(dom, t))
      [] OTHER -> s

\* the designs makeDesigns(count) returns
makeDesigns(dom, count) == mdRun(dom, mdStart(count)).designs

(***************************************************************************)
(* Specification SpecDesign: makeDesigns(count) step by step, for every    *)
(* count and style pack the page offers, every clock value up to MaxNow    *)
(* and every member of the prng family up to MaxPrng.  The steps are the   *)
(* straight-line code of one call, so each enabled step is taken (WF).     *)
(***************************************************************************)
MaxNow == 2

InitDesign ==
    /\ pc = "call"
    /\ args \in [count : CountOptions]
    /\ ret = <<>>
    /\ locals = <<>>
    /\ ControlsAtDefault /\ NoCards
    /\ stylePack \in StylePackOptions
    /\ quoteSize = 95 /\ authorSize = 105
    /\ now \in 0..MaxNow
    /\ prng \in 0..MaxPrng
    /\ NoIO

MdCall ==
    /\ pc = "call"
    /\ locals' = mdStart(args.count)
    /\ pc' = locals'.pc
    /\ UNCHANGED <<args, ret, domVars, cardVars, envVars, ioVars>>

MdAttempt ==
    /\ pc = "attempt"
    /\ locals' = mdAttempt(Dom, locals)
    /\ pc' = locals'.pc
    /\ UNCHANGED <<args, ret, domVars, cardVars, envVars, ioVars>>

MdAccept ==
    /\ pc = "accept"
    /\ locals' = mdAccept(locals)
    /\ pc' = locals'.pc
    /\ UNCHANGED <<args, ret, domVars, cardVars, envVars, ioVars>>

MdReturn ==
    /\ pc = "return"
    /\ ret' = locals.designs
    /\ pc' = "done"
    /\ UNCHANGED <<args, locals, domVars, cardVars, envVars, ioVars>>

NextDesign == MdCall \/ MdAttempt \/ MdAccept \/ MdReturn

SpecDesign == InitDesign /\ [][NextDesign]_vars /\ WF_vars(NextDesign)

\* the call taken step by step returns what makeDesigns computes in one go
MdStepsAgree ==
    pc = "done" =>
        /\ ret = makeDesigns(Dom, args.count)
        /\ locals = mdRun(Dom, mdStart(args.count))

\* card k of the returned batch repeats the tuple of an earlier card
Duplicates(designs, k) ==
    \E j \in 1..(k - 1) : designHash(designs[j]) = designHash(designs[k])

(* C9: the designs makeDesigns returns have pairwise distinct tuples       *)
(* (bgType, layout, palette index, quote font), unless for some card all   *)
(* 60 attempts collided with tuples already chosen; that card's colliding  *)
(* design is accepted and the batch is returned without error.             *)
C9_DistinctUnlessExhausted ==
    pc = "done" =>
        /\ Len(ret) = args.count
        /\ \A k \in DOMAIN ret :
               Duplicates(ret, k) =>
                   /\ locals.log[k].tries = MaxTries
                   /\ locals.log[k].collided = MaxTries

\* a batch in which one card found a free tuple on a retry and a later
\* card used up its 60 attempts and was accepted as a duplicate
C9_Witness ==
    /\ pc = "done"
    /\ \E k \in DOMAIN ret :
           /\ ~Duplicates(ret, k)
           /\ locals.log[k].tries > 1
    /\ \E k \in DOMAIN ret :
           /\ Duplicates(ret, k)
           /\ locals.log[k].tries = MaxTries

(* C10: makeDesigns(count) terminates; no card makes more than 60          *)
(* attempts; no retry of a card uses a seed that card already tried; the   *)
(* call returns exactly count designs.                                     *)
C10_Terminates ==
    /\ <>(pc = "done")
    /\ [](pc \in {"attempt", "accept", "return"} =>
              /\ locals.tries <= MaxTries
              /\ locals.fresh
              /\ Cardinality(locals.seeds) = locals.tries)
    /\ [](pc = "done" => Len(ret) = args.count)

\* a returned batch in which some card needed all 60 attempts
C10_Witness ==
    /\ pc = "done"
    /\ Len(ret) = args.count
    /\ \E k \in DOMAIN ret : locals.log[k].tries = MaxTries

(***************************************************************************)
(* The generator's renderCard.                                             *)
(*                                                                         *)
(* The canvas after a render is [width, height, ops]: its pixel size and   *)
(* the drawing operations issued on its context, in order.  An operation   *)
(* is a record [step, op, style, geom, text]: the part of renderCard that  *)
(* issued it, the context method, the fill/stroke style and text settings  *)
(* in force, its coordinates (cpx, seeds as they are) and the string       *)
(* drawn.  A seeded pattern (grain, speckles, dots, blobs, doodles) is one *)
(* operation that carries its seed: its shapes are a function of the seed, *)
(* the size and seededRandom.                                              *)
(***************************************************************************)
Op(step, op, style, geom, text) ==
    [step |-> step, op |-> op, style |-> style, geom |-> geom, text |-> text]

\* s.trim()
RECURSIVE TrimStart(_)
TrimStart(s) ==
    IF s # <<>> /\ Head(s) \in Whitespace THEN TrimStart(Tail(s)) ELSE s
RECURSIVE TrimEnd(_)
TrimEnd(s) ==
    IF s # <<>> /\ s[Len(s)] \in Whitespace
    THEN TrimEnd(SubSeq(s, 1, Len(s) - 1)) ELSE s
trim(s) == TrimEnd(TrimStart(s))

\* Math.ceil(a / b) for a >= 0, b > 0
CeilDiv(a, b) == (a + b - 1) \div b

\* the context a font is set on: `${size}px ${family}`.  The serif families
\* of FONTS kern the pair "W","a", the sans-serif ones do not.
fontCtx(size, family) ==
    [font |-> size,
     kern |-> IF family \in {"Georgia, serif", "Palatino, serif", "Garamond, serif"}
              THEN KernStep ELSE 0]

\* getQuoteMul(), getAuthorMul(): the sliders, in percent
getQuoteMul(dom) == dom.quoteSize
getAuthorMul(dom) == dom.authorSize

\* height = Math.max(height, needed)
autoGrowNever(height, needed) == height
autoGrow(height, needed) == Max(height, needed)

\* the size computation of renderCard.  width * 0.05 * quoteMul is
\* width * 5 * quoteSize / 10000 and width * 0.034 * authorMul is
\* width * 34 * authorSize / 100000; lengths are in cpx, sizes in px.
\* These agree with the double arithmetic of the source for the widths and
\* slider values used below (at width 1700 and 140% the double product is
\* just under 119 and floors to 118).
cardSize(dom, quote, author, design, format, sizeOverride) ==
    LET base == FORMATS[format]
        width == Max(base.minWidth,
                     IF sizeOverride.w # NULL THEN sizeOverride.w ELSE base.minWidth)
        height == Max(base.minHeight,
                      IF sizeOverride.h # NULL THEN sizeOverride.h ELSE base.minHeight)
        padding == width * 10
        maxWidth == width * 100 - padding * 2
        qSize == (width * 5 * getQuoteMul(dom)) \div 10000
        qLine == qSize * 138
        lines == wrapTextSmart(fontCtx(qSize, design.font.quote), quote, maxWidth)
        hasAuthor == trim(author) # <<>>
        aSize == IF hasAuthor THEN (width * 34 * getAuthorMul(dom)) \div 100000 ELSE 0
        aGap == IF hasAuthor THEN aSize * 60 ELSE 0
        blockH == Len(lines) * qLine + aGap + (IF hasAuthor THEN aSize * 160 ELSE 0)
        needed == CeilDiv(blockH + (padding * 26) \div 10, 100)
    IN [width |-> width, height |-> autoGrow(height, needed),
        padding |-> padding, maxWidth |-> maxWidth,
        qSize |-> qSize, qLine |-> qLine, lines |-> lines,
        hasAuthor |-> hasAuthor, aSize |-> aSize, aGap |-> aGap,
        blockH |-> blockH, needed |-> needed]

\* roundedRectPath(ctx, 0, 0, w, h, r); ctx.clip()
roundedRectPath(w, h, r) ==
    Op("clip", "clip", <<>>, <<w * 100, h * 100, Max(0, Min(r * 100, Min(w, h) * 50))>>, <<>>)

\* the background branch of renderCard: the fills of each bgType
drawBackground(design, width, height) ==
    LET palette == design.palette
        seed == design.seed
        bgType == design.bgType
        fill(style) == Op("background", "fillRect", style,
                          <<0, 0, width * 100, height * 100>>, <<>>)
        pattern(op, style) == Op("background", op, style, <<seed>>, <<>>)
    IN CASE bgType \in {"gradient", "glass"} ->
              <<fill(design.gradient)>>
              \o (IF bgType = "glass" THEN <<fill(<<"rgba(255,255,255,0.16)">>)>>
                  ELSE <<>>)
         [] bgType = "dark" ->
              <<fill(<<palette.bg>>), fill(<<"rgba(255,255,255,0.04)">>)>>
         [] bgType = "paper" ->
              <<fill(<<"#ffffff">>), pattern("speckles", <<palette.accent>>)>>
         [] bgType = "noise" ->
              <<fill(<<palette.bg>>), pattern("addGrain", <<>>)>>
         [] bgType = "stripes" ->
              <<fill(<<palette.bg>>), Op("background", "stripes",
                                         <<"rgba(0,0,0,0.05)">>, <<>>, <<>>)>>
         [] bgType = "halftone" ->
              <<fill(<<palette.bg>>), pattern("dots", <<"rgba(0,0,0,0.05)">>)>>
         [] bgType = "blobs" ->
              <<fill(<<palette.bg>>), pattern("blobs", <<palette.accent>>)>>
         [] OTHER -> <<fill(<<palette.bg>>)>>

\* drawDoodles(ctx, width, height, color, seed)
drawDoodles(width, height, color, seed) ==
    Op("decorations", "drawDoodles", <<color>>, <<width * 100, height * 100, seed>>, <<>>)

\* the layout branch of renderCard: the accent it draws and the text
\* anchor, alignment and wrap width it sets
layoutOf(design, width, height, padding) ==
    LET accent == design.palette.accent
        acc(op, geom) == <<Op("accent", op, <<accent>>, geom, <<>>)>>
        dflt == [contentY |-> height * 52, contentX |-> width * 50,
                 align |-> "center", innerMax |-> width * 100 - padding * 2,
                 accent |-> <<>>]
        layout == design.layout
    IN CASE layout = "left" ->
              [dflt EXCEPT !.align = "left", !.contentX = padding,
                           !.contentY = height * 46]
         [] layout = "icon-top" ->
              [dflt EXCEPT !.contentY = height * 56,
                           !.accent = acc("arc", <<width * 50, height * 22, 5400>>)]
         [] layout = "bordered" ->
              [dflt EXCEPT !.innerMax = width * 100 - padding * 3,
                           !.accent = acc("strokeRect",
                                          <<padding \div 2, padding \div 2,
                                            width * 100 - padding,
                                            height * 100 - padding>>)]
         [] layout = "split" ->
              IF height >= width
              THEN [dflt EXCEPT !.contentY = height * 58,
                                !.accent = acc("fillRect",
                                               <<0, 0, width * 100, height * 32>>)]
              ELSE [dflt EXCEPT !.align = "left", !.contentX = width * 38,
                                !.innerMax = width * 55,
                                !.accent = acc("fillRect",
                                               <<0, 0, width * 32, height * 100>>)]
         [] layout = "underline" ->
              [dflt EXCEPT !.accent = acc("fillRect",
                                          <<padding, height * 72,
                                            width * 100 - padding * 2, 1000>>)]
         [] layout = "footer" ->
              [dflt EXCEPT !.contentY = height * 48,
                           !.accent = acc("fillRect",
                                          <<0, height * 82, width * 100, height * 18>>)]
         [] layout = "corner-frame" ->
              [dflt EXCEPT !.innerMax = width * 100 - (padding * 24) \div 10,
                           !.accent = acc("stroke",
                                          <<(padding * 6) \div 10, (padding * 9) \div 10,
                                            width * 100, height * 100>>)]
         [] layout = "diagonal" ->
              [dflt EXCEPT !.contentY = height * 58,
                           !.accent = acc("fill",
                                          <<0, 0, width * 100, 0,
                                            width * 100, height * 45>>)]
         [] OTHER -> dflt

\* relLuma(hexToRgb(hex)) in 1/10000, tabulated for the colors of the
\* catalogs: 0.2126 R + 0.7152 G + 0.0722 B over the linearized channels
relLuma(hex) ==
    CASE hex = "#ffffff" -> 10000
      [] hex = "#FFF5F5" -> 9316 [] hex = "#EBF8FF" -> 9202
      [] hex = "#F0FFF4" -> 9658 [] hex = "#FFFAF0" -> 9592
      [] hex = "#FAF5FF" -> 9285 [] hex = "#FFF5F7" -> 9328
      [] hex = "#E6FFFA" -> 9525 [] hex = "#F7FAFC" -> 9517
      [] hex = "#0B1020" -> 55   [] hex = "#0F172A" -> 88
      [] hex = "#111827" -> 92   [] hex = "#FFFFFF" -> 10000
      [] hex = "#E53E3E" -> 2045 [] hex = "#2B6CB0" -> 1437
      [] hex = "#2F855A" -> 1812 [] hex = "#DD6B20" -> 2599
      [] hex = "#6B46C1" -> 1136 [] hex = "#B83280" -> 1403
      [] hex = "#2C7A7B" -> 1588 [] hex = "#4A5568" -> 895
      [] hex = "#7C3AED" -> 1343 [] hex = "#38BDF8" -> 4401
      [] hex = "#F59E0B" -> 4389 [] hex = "#2D3748" -> 376
      [] hex = "#1A202C" -> 143  [] hex = "#000000" -> 0

\* hexToRgb(hex), tabulated for the accents and the two quote colors
hexToRgb(hex) ==
    CASE hex = "#E53E3E" -> <<229, 62, 62>>   [] hex = "#2B6CB0" -> <<43, 108, 176>>
      [] hex = "#2F855A" -> <<47, 133, 90>>   [] hex = "#DD6B20" -> <<221, 107, 32>>
      [] hex = "#6B46C1" -> <<107, 70, 193>>  [] hex = "#B83280" -> <<184, 50, 128>>
      [] hex = "#2C7A7B" -> <<44, 122, 123>>  [] hex = "#4A5568" -> <<74, 85, 104>>
      [] hex = "#7C3AED" -> <<124, 58, 237>>  [] hex = "#38BDF8" -> <<56, 189, 248>>
      [] hex = "#F59E0B" -> <<245, 158, 11>>  [] hex = "#2D3748" -> <<45, 55, 72>>
      [] hex = "#1A202C" -> <<26, 32, 44>>    [] hex = "#000000" -> <<0, 0, 0>>
      [] hex = "#111827" -> <<17, 24, 39>>    [] hex = "#FFFFFF" -> <<255, 255, 255>>

\* mixRgb(a, b, t), t in percent: Math.round(a + (b - a) * t) per channel
mixRgb(a, b, t) ==
    [k \in 1..3 |-> (100 * a[k] + (b[k] - a[k]) * t + 50) \div 100]

\* `rgb(${r}, ${g}, ${b})`: the string of the three channel values
rgbString(rgb) == ToString(rgb)

\* relLuma of the mean of the two stops of each gradient of GRADIENTS
GradientLuma == <<1660, 5222, 3496, 6678, 4999, 1367, 7371, 5701, 146, 3590>>

\* relLuma(sampleAverageRgb(ctx, ...)): the luminance of the pixels of the
\* middle of the canvas.  The base fill decides it; the layers drawn over
\* it with an alpha of at most 0.25 are not blended in.
sampleAverageLuma(ctx) ==
    LET base == ctx[2].style
    IN IF Len(base) = 2 THEN GradientLuma[IndexOf(GRADIENTS, base) + 1]
       ELSE relLuma(base[1])

\* (max + 0.05) / (min + 0.05) < 2.2, on luminances in 1/10000
ContrastBelow22(l1, l2) == (Max(l1, l2) + 500) * 10 < 22 * (Min(l1, l2) + 500)

\* chooseTextColors from  const isLightBg = L > 0.55  on, L in 1/10000
textColorsNoDarkFix(L, palette) ==
    [quoteColor |-> IF L > 5500 THEN "#111827" ELSE "#FFFFFF",
     authorColor |-> palette.accent]
textColors(L, palette) ==
    LET isLightBg == L > 5500
        quoteColor == IF isLightBg THEN "#111827" ELSE "#FFFFFF"
        acc == hexToRgb(palette.accent)
        quoteRgb == hexToRgb(quoteColor)
        accL == relLuma(palette.accent)
        quoteL == relLuma(quoteColor)
    IN [quoteColor |-> quoteColor,
        authorColor |-> IF ~isLightBg THEN "rgba(255,255,255,0.85)"
                        ELSE IF ContrastBelow22(accL, quoteL)
                             THEN rgbString(mixRgb(acc, quoteRgb, 55))
                        ELSE palette.accent]

\* chooseTextColors(ctx, width, height, palette)
chooseTextColors(ctx, width, height, palette) ==
    textColors(sampleAverageLuma(ctx), palette)

\* the text part of renderCard: the quote lines from the clamped start y
\* down, then the author line
drawText(sz, lay, colors, design, author, textLines) ==
    LET safeTop == (sz.padding * 9) \div 10
        safeBottom == sz.height * 100 - (sz.padding * 9) \div 10
        quoteH == Len(textLines) * sz.qLine
        aBlock == IF sz.hasAuthor THEN sz.aSize * 160 ELSE 0
        totalH == quoteH + sz.aGap + aBlock
        y == computeSafeStartY(lay.contentY, totalH, safeTop, safeBottom)
        x == IF lay.align = "left" THEN lay.contentX ELSE sz.width * 50
    IN [k \in 1..Len(textLines) |->
           Op("quote", "fillText",
              <<colors.quoteColor, lay.align, design.font.quote>>,
              <<x, y + (k - 1) * sz.qLine, sz.qSize>>, textLines[k])]
       \o (IF sz.hasAuthor
           THEN <<Op("author", "fillText",
                     <<colors.authorColor, lay.align, design.font.author>>,
                     <<x, y + quoteH + sz.aGap, sz.aSize>>, author)>>
           ELSE <<>>)

\* renderCard once the canvas has its size: clip, background, doodles,
\* layout accent, text colors, text
drawCardSampleFirst(dom, quote, author, design, radius, sz) ==
    LET width == sz.width
        height == sz.height
        palette == design.palette
        isDark == design.bgType = "dark"
        doodles == IF dom.stylePack # "minimal"
                   THEN <<drawDoodles(width, height,
                                      IF isDark THEN "rgba(255,255,255,1)"
                                      ELSE palette.accent,
                                      design.seed + 999)>>
                   ELSE <<>>
        sample == Op("colors", "getImageData", <<>>,
                     <<(width * 22) \div 100, (height * 30) \div 100,
                       (width * 56) \div 100, (height * 40) \div 100>>, <<>>)
    IN With(layoutOf(design, width, height, sz.padding), LAMBDA lay :
       With(<<roundedRectPath(width, height, radius)>>
            \o drawBackground(design, width, height) \o doodles \o lay.accent,
            LAMBDA ctx :
       With(chooseTextColors(<<roundedRectPath(width, height, radius),
                               Op("background", "fillRect", <<palette.bg>>,
                                  <<0, 0, width * 100, height * 100>>, <<>>)>>,
                             width, height, palette), LAMBDA colors :
       With(wrapTextSmart(fontCtx(sz.qSize, design.font.quote), quote, lay.innerMax),
            LAMBDA textLines :
            [width |-> width, height |-> height,
             ops |-> <<sample>> \o ctx
                     \o drawText(sz, lay, colors, design, author, textLines)]))))
drawCard(dom, quote, author, design, radius, sz) ==
    LET width == sz.width
        height == sz.height
        palette == design.palette
        isDark == design.bgType = "dark"
        doodles == IF dom.stylePack # "minimal"
                   THEN <<drawDoodles(width, height,
                                      IF isDark THEN "rgba(255,255,255,1)"
                                      ELSE palette.accent,
                                      design.seed + 999)>>
                   ELSE <<>>
        sample == Op("colors", "getImageData", <<>>,
                     <<(width * 22) \div 100, (height * 30) \div 100,
                       (width * 56) \div 100, (height * 40) \div 100>>, <<>>)
    IN With(layoutOf(design, width, height, sz.padding), LAMBDA lay :
       With(<<roundedRectPath(width, height, radius)>>
            \o drawBackground(design, width, height) \o doodles \o lay.accent,
            LAMBDA ctx :
       With(chooseTextColors(ctx, width, height, palette), LAMBDA colors :
       With(wrapTextSmart(fontCtx(sz.qSize, design.font.quote), quote, lay.innerMax),
            LAMBDA textLines :
            [width |-> width, height |-> height,
             ops |-> ctx \o <<sample>>
                     \o drawText(sz, lay, colors, design, author, textLines)]))))

\* renderCard(canvas, quote, author, design, format, radius, sizeOverride):
\* the canvas it leaves.  dom is the controls it reads while it runs
\* (quoteSize, authorSize, stylePack).
renderCard(dom, quote, author, design, format, radius, sizeOverride) ==
    With(cardSize(dom, quote, author, design, format, sizeOverride),
         LAMBDA sz : drawCard(dom, quote, author, design, radius, sz))

(***************************************************************************)
(* Specification SpecRender: one call of renderCard, for a quote of no     *)
(* word, one word and MaxWords words, with and without an author, every    *)
(* format, a card that was never resized and cards resized by a drag,      *)
(* the ends and the default of the size sliders, every layout name of      *)
(* STYLE_PACKS and the layouts renderCard knows, and the minimal and the   *)
(* balanced pack selected.                                                 *)
(***************************************************************************)
MaxWords == 16

RECURSIVE Words(_)
Words(n) ==
    IF n = 0 THEN <<>>
    ELSE IF n = 1 THEN <<"W", "W", "W", "W", "W">>
    ELSE Words(n - 1) \o <<" ">> \o Words(1)

LayoutNames ==
    UNION {Range(STYLE_PACKS[p].layouts) : p \in DOMAIN STYLE_PACKS}
    \cup {"centered", "left", "icon-top", "bordered", "split", "underline",
          "footer", "corner-frame", "diagonal"}

\* a CardState: never resized, or as a drag left it
SizeOverrides ==
    {[w |-> NULL, h |-> NULL, previewW |-> NULL],
     [w |-> 1000, h |-> 1080, previewW |-> 280],
     [w |-> 1200, h |-> 1400, previewW |-> 336],
     [w |-> 1750, h |-> 950, previewW |-> 490]}

InitRender ==
    /\ pc = "call"
    /\ args \in [quote : {Words(0), Words(1), Words(MaxWords)},
                 author : {<<>>, <<"W", "a">>},
                 design : [palette : {PALETTES[1]}, gradient : {GRADIENTS[1]},
                           font : {FONTS[1], FONTS[6]},
                           bgType : {"solid", "dark"},
                           layout : LayoutNames, seed : {5}],
                 format : FormatOptions,
                 radius : {26},
                 sizeOverride : SizeOverrides]
    /\ ret = <<>>
    /\ locals = <<>>
    /\ ControlsAtDefault /\ NoCards
    /\ stylePack \in {"balanced", "minimal"}
    /\ quoteSize \in {70, 95, 140}
    /\ authorSize \in {105, 140}
    /\ now = 0 /\ prng = 1
    /\ NoIO

CallRender ==
    /\ pc = "call"
    /\ pc' = "done"
    /\ ret' = renderCard(Dom, args.quote, args.author, args.design, args.format,
                         args.radius, args.sizeOverride)
    /\ UNCHANGED <<args, locals, domVars, cardVars, envVars, ioVars>>

NextRender == CallRender

SpecRender == InitRender /\ [][NextRender]_vars

\* the text operations of a canvas, and the box of a line: from its y down
\* by the line height the code gives it (1.38 and 1.6 times the font size)
TextOps(canvas) ==
    {k \in DOMAIN canvas.ops : canvas.ops[k].step \in {"quote", "author"}}
LineTop(o) == o.geom[2]
LineBottom(o) ==
    o.geom[2] + o.geom[3] * (IF o.step = "quote" THEN 138 ELSE 160)
SafeTop(canvas) == canvas.width * 9
SafeBottom(canvas) == canvas.height * 100 - canvas.width * 9
InSafeZone(canvas) ==
    \A k \in TextOps(canvas) :
        /\ SafeTop(canvas) <= LineTop(canvas.ops[k])
        /\ LineBottom(canvas.ops[k]) <= SafeBottom(canvas)

\* the layouts that draw the text at the width it was measured at
DrawsAtMeasuredWidth(design, canvas) ==
    /\ design.layout \notin {"bordered", "corner-frame"}
    /\ design.layout = "split" => canvas.height >= canvas.width

(* C6: after renderCard, for every quote, author, format, size multiplier  *)
(* and layout, every drawn text line (the quote lines and the author line) *)
(* lies between safeTop and safeBottom of the final canvas height.         *)
C6_TextWithinSafeZone == pc = "done" /\ "ops" \in DOMAIN ret => InSafeZone(ret)

\* C6 for the layouts that wrap at the measured width
C6_TextWithinSafeZone_MeasuredWidth ==
    pc = "done" /\ "ops" \in DOMAIN ret /\ DrawsAtMeasuredWidth(args.design, ret)
        => InSafeZone(ret)

\* a long quote on a card that has grown, drawn inside the safe zone
C6_Witness_MeasuredWidth ==
    /\ pc = "done" /\ "ops" \in DOMAIN ret
    /\ DrawsAtMeasuredWidth(args.design, ret)
    /\ args.quote = Words(MaxWords)
    /\ ret.height > FORMATS[args.format].minHeight
    /\ InSafeZone(ret)

(* C7: the final canvas height is max(requested height, measured content   *)
(* height + padding margin), rounded up to a pixel; the final width is the *)
(* requested width, which is the format's minimum width when the card was  *)
(* never resized and does not depend on the text; width and height are     *)
(* never below the format's minimum for any size override.                 *)
C7_FinalSize ==
    pc = "done" /\ "width" \in DOMAIN ret =>
        LET base == FORMATS[args.format]
            st == args.sizeOverride
            reqW == IF st.w = NULL THEN base.minWidth ELSE Max(base.minWidth, st.w)
            reqH == IF st.h = NULL THEN base.minHeight ELSE Max(base.minHeight, st.h)
            qSize == (reqW * 5 * quoteSize) \div 10000
            aSize == (reqW * 34 * authorSize) \div 100000
            measured == wrapTextSmart(fontCtx(qSize, args.design.font.quote),
                                      args.quote, reqW * 80)
            content == Len(measured) * qSize * 138
                       + (IF \E k \in DOMAIN args.author : args.author[k] \notin Whitespace
                          THEN aSize * 220 ELSE 0)
            margin == reqW * 26
        IN /\ ret.width = reqW
           /\ ret.height = Max(reqH, CeilDiv(content + margin, 100))
           /\ st.w = NULL => ret.width = base.minWidth
           /\ ret.width >= base.minWidth
           /\ ret.height >= base.minHeight

\* a resized card whose quote needs more than the requested height
C7_Witness ==
    /\ pc = "done" /\ "width" \in DOMAIN ret
    /\ args.sizeOverride.w # NULL
    /\ ret.width = args.sizeOverride.w
    /\ ret.height > Max(FORMATS[args.format].minHeight, args.sizeOverride.h)

(***************************************************************************)
(* renderAll and the listeners of the generator page.                      *)
(*                                                                         *)
(* page is the state renderAll works on: [designsCache, cardState,         *)
(* domCards, toast].  A card of domCards is [canvas, pill, previewW,       *)
(* drawn]: its canvas, the text of its size pill, its --preview-w, and a   *)
(* history field, not in the source: the arguments and slider values of    *)
(* the renderCard call that drew the canvas.  Indices are those of the     *)
(* source plus one.                                                        *)
(***************************************************************************)
Page ==
    [designsCache |-> designsCache, cardState |-> cardState,
     domCards |-> domCards, toast |-> toast]

NoCardState == [w |-> NULL, h |-> NULL, previewW |-> NULL]

\* Math.round(x / 100) for x >= 0
RoundDiv100(x) == (x + 50) \div 100

\* buildCard / the item of domCards after renderCard and the two style
\* updates that follow it in renderAll
cardOf(dom, quote, author, design, format, radius, st) ==
    With(renderCard(dom, quote, author, design, format, radius, st), LAMBDA canvas :
       [canvas |-> canvas,
        pill |-> <<canvas.width, canvas.height>>,
        previewW |-> IF st.previewW # NULL /\ st.previewW # 0 THEN st.previewW
                     ELSE Min(RoundDiv100(canvas.width * 28), 700),
        drawn |-> [quote |-> quote, author |-> author, design |-> design,
                   format |-> format, radius |-> radius, sizeOverride |-> st,
                   quoteMul |-> getQuoteMul(dom), authorMul |-> getAuthorMul(dom)]])

\* renderAll({ newDesigns, rerenderOnlyIndex }), rerenderOnlyIndex NULL or
\* an index from 0
renderAll(dom, page, newDesigns, rerenderOnlyIndex) ==
    LET quote == dom.quoteText
        author == dom.authorText
        format == dom.formatSelect
        radius == dom.radiusSelect
        count == dom.countSelect
        regenerate == newDesigns \/ Len(page.designsCache) # count
        states == IF regenerate THEN [i \in 1..count |-> NoCardState]
                  ELSE page.cardState
    IN IF trim(quote) = <<>> THEN [page EXCEPT !.toast = "Please enter a quote"]
       ELSE With(IF regenerate THEN makeDesigns(dom, count) ELSE page.designsCache,
                 LAMBDA designs :
            LET card(i) == cardOf(dom, quote, author, designs[i], format, radius,
                                  states[i])
            IN IF rerenderOnlyIndex # NULL
               THEN [page EXCEPT
                         !.designsCache = designs, !.cardState = states,
                         !.domCards =
                             IF rerenderOnlyIndex + 1 \in DOMAIN page.domCards
                             THEN [page.domCards EXCEPT
                                       ![rerenderOnlyIndex + 1] =
                                           card(rerenderOnlyIndex + 1)]
                             ELSE page.domCards]
               ELSE [designsCache |-> designs, cardState |-> states,
                     domCards |-> [i \in 1..count |-> card(i)],
                     toast |-> IF newDesigns THEN "Generated new styles"
                               ELSE "Updated"])

\* maybeLiveRender()
maybeLiveRender(dom, page) ==
    IF dom.liveUpdate THEN renderAll(dom, page, FALSE, NULL) ELSE page

(***************************************************************************)
(* Specification SpecGen: the generator page from its mount on.  An event  *)
(* sets its control and runs its listener to the end; events are handled   *)
(* at successive clock values, and a session has up to MaxEvents of them.  *)
(* The quote and author fields hold nothing or a short text, the sliders   *)
(* their default or their maximum.                                         *)
(***************************************************************************)
MaxEvents == 4

UiQuotes == {<<>>, <<"W", "a">>}
UiAuthors == {<<>>, <<"a">>}
UiQuoteSizes == {95, 140}
UiAuthorSizes == {105, 140}

\* the page after the mount effect: makeDesigns(initialCount), an empty
\* cardState per card, and renderAll({ newDesigns: false }) on the empty
\* quote, which only shows its toast
InitGen ==
    /\ pc = "page" /\ args = <<>> /\ locals = <<>> /\ ret = <<>>
    /\ quoteText = <<>> /\ authorText = <<>>
    /\ formatSelect = "square" /\ countSelect = 6 /\ radiusSelect = 26
    /\ stylePack = "balanced" /\ liveUpdate = TRUE
    /\ quoteSize = 95 /\ authorSize = 105
    /\ now = 0 /\ prng = 1
    /\ NoIO
    /\ designsCache = makeDesigns(Dom, countSelect)
    /\ cardState = [i \in 1..countSelect |-> NoCardState]
    /\ domCards = <<>>
    /\ toast = "Please enter a quote"

\* the listener has run on the controls as the event left them
Handled(page) ==
    \E p \in {page} :
        /\ designsCache' = p.designsCache
        /\ cardState' = p.cardState
        /\ domCards' = p.domCards
        /\ toast' = p.toast
        /\ now' = now + 1
        /\ UNCHANGED <<prng, callVars, ioVars>>

Generate ==
    /\ now < MaxEvents
    /\ UNCHANGED <<quoteText, authorText, formatSelect, countSelect, radiusSelect,
                   stylePack, liveUpdate, quoteSize, authorSize>>
    /\ Handled(renderAll(Dom, Page, TRUE, NULL))

FormatChange ==
    /\ now < MaxEvents
    /\ \E f \in FormatOptions \ {formatSelect} : formatSelect' = f
    /\ UNCHANGED <<quoteText, authorText, countSelect, radiusSelect,
                   stylePack, liveUpdate, quoteSize, authorSize>>
    /\ Handled(renderAll(Dom', Page, FALSE, NULL))

CountChangeWithin(max) ==
    /\ now < max
    /\ \E c \in CountOptions \ {countSelect} : countSelect' = c
    /\ UNCHANGED <<quoteText, authorText, formatSelect, radiusSelect,
                   stylePack, liveUpdate, quoteSize, authorSize>>
    /\ Handled(renderAll(Dom', Page, TRUE, NULL))
CountChange == CountChangeWithin(MaxEvents)

RadiusChange ==
    /\ now < MaxEvents
    /\ \E r \in RadiusOptions \ {radiusSelect} : radiusSelect' = r
    /\ UNCHANGED <<quoteText, authorText, formatSelect, countSelect,
                   stylePack, liveUpdate, quoteSize, authorSize>>
    /\ Handled(maybeLiveRender(Dom', Page))

StylePackChange ==
    /\ now < MaxEvents
    /\ \E p \in StylePackOptions \ {stylePack} : stylePack' = p
    /\ UNCHANGED <<quoteText, authorText, formatSelect, countSelect, radiusSelect,
                   liveUpdate, quoteSize, authorSize>>
    /\ Handled(renderAll(Dom', Page, TRUE, NULL))

QuoteInputWithin(max) ==
    /\ now < max
    /\ \E q \in UiQuotes \ {quoteText} : quoteText' = q
    /\ UNCHANGED <<authorText, formatSelect, countSelect, radiusSelect,
                   stylePack, liveUpdate, quoteSize, authorSize>>
    /\ Handled(maybeLiveRender(Dom', Page))
QuoteInput == QuoteInputWithin(MaxEvents)

AuthorInput ==
    /\ now < MaxEvents
    /\ \E a \in UiAuthors \ {authorText} : authorText' = a
    /\ UNCHANGED <<quoteText, formatSelect, countSelect, radiusSelect,
                   stylePack, liveUpdate, quoteSize, authorSize>>
    /\ Handled(maybeLiveRender(Dom', Page))

QuoteSizeInput ==
    /\ now < MaxEvents
    /\ \E v \in UiQuoteSizes \ {quoteSize} : quoteSize' = v
    /\ UNCHANGED <<quoteText, authorText, formatSelect, countSelect, radiusSelect,
                   stylePack, liveUpdate, authorSize>>
    /\ Handled(maybeLiveRender(Dom', Page))

AuthorSizeInput ==
    /\ now < MaxEvents
    /\ \E v \in UiAuthorSizes \ {authorSize} : authorSize' = v
    /\ UNCHANGED <<quoteText, authorText, formatSelect, countSelect, radiusSelect,
                   stylePack, liveUpdate, quoteSize>>
    /\ Handled(maybeLiveRender(Dom', Page))

\* the checkbox has no listener
LiveUpdateToggleWithin(max) ==
    /\ now < max
    /\ liveUpdate' = ~liveUpdate
    /\ UNCHANGED <<quoteText, authorText, formatSelect, countSelect, radiusSelect,
                   stylePack, quoteSize, authorSize>>
    /\ Handled(Page)
LiveUpdateToggle == LiveUpdateToggleWithin(MaxEvents)

NextGen ==
    \/ Generate \/ FormatChange \/ CountChange \/ RadiusChange
    \/ StylePackChange \/ QuoteInput \/ AuthorInput
    \/ QuoteSizeInput \/ AuthorSizeInput \/ LiveUpdateToggle

SpecGen == InitGen /\ [][NextGen]_vars

(* C1: two calls of renderCard with the same Design, quote, author,        *)
(* dimensions, corner radius and size multipliers issue the same sequence  *)
(* of draw operations, whatever else the page holds: when a card's canvas  *)
(* is drawn again from the request it was last drawn from, the canvas is   *)
(* the same.                                                               *)
C1_SameRequestSameDrawing ==
    [][\A i \in DOMAIN domCards \cap DOMAIN domCards' :
           domCards'[i].drawn = domCards[i].drawn
               => domCards'[i].canvas = domCards[i].canvas]_vars

(***************************************************************************)
(* Specification SpecColors: the color resolver on every sampled           *)
(* luminance of a grid of LumaStep/10000 plus the two values around the    *)
(* 0.55 cut, for the palettes of the catalog and for palettes a feed       *)
(* record can carry whose accent is as dark as the quote color.            *)
(***************************************************************************)
LumaStep == 100

LumaGrid == {k * LumaStep : k \in 0..(10000 \div LumaStep)} \cup {5500, 5501}

ColorPalettes ==
    Range(PALETTES)
    \cup {[bg |-> "#F7FAFC", text |-> "#1A202C", accent |-> a] :
              a \in {"#2D3748", "#1A202C", "#000000"}}

InitColors ==
    /\ pc = "call"
    /\ args \in [L : LumaGrid, palette : ColorPalettes]
    /\ ret = <<>>
    /\ locals = <<>>
    /\ ControlsAtDefault /\ NoCards
    /\ stylePack = "balanced" /\ quoteSize = 95 /\ authorSize = 105
    /\ now = 0 /\ prng = 1
    /\ NoIO

CallColors ==
    /\ pc = "call"
    /\ pc' = "done"
    /\ ret' = textColors(args.L, args.palette)
    /\ UNCHANGED <<args, locals, domVars, cardVars, envVars, ioVars>>

NextColors == CallColors

SpecColors == InitColors /\ [][NextColors]_vars

\* the accent blended 55% toward the quote color, channel by channel
Blend55(accent, quote) ==
    [k \in 1..3 |->
        (45 * hexToRgb(accent)[k] + 55 * hexToRgb(quote)[k] + 50) \div 100]

(* C11: at a sampled luminance <= 0.55 the quote color is white and the    *)
(* author color is translucent white, not the accent; at a luminance       *)
(* > 0.55 the quote color is near-black and the author color is the accent *)
(* exactly when the accent-vs-quote contrast is >= 2.2, otherwise the      *)
(* accent blended 55% toward the quote color.                              *)
C11_TextColors ==
    pc = "done" /\ "L" \in DOMAIN args =>
        LET accent == args.palette.accent
            low == ContrastBelow22(relLuma(accent), relLuma("#111827"))
        IN IF args.L <= 5500
           THEN /\ ret.quoteColor = "#FFFFFF"
                /\ ret.authorColor = "rgba(255,255,255,0.85)"
                /\ ret.authorColor # accent
           ELSE /\ ret.quoteColor = "#111827"
                /\ ret.authorColor = accent <=> ~low
                /\ low => ret.authorColor = rgbString(Blend55(accent, "#111827"))

\* a light background with an accent too close to the quote color: the
\* author color is the blend
C11_Witness ==
    /\ pc = "done" /\ "L" \in DOMAIN args
    /\ args.L > 5500
    /\ ContrastBelow22(relLuma(args.palette.accent), relLuma("#111827"))
    /\ ret.authorColor = rgbString(Blend55(args.palette.accent, "#111827"))
    /\ ret.authorColor # args.palette.accent

(* C12: for every sampled luminance L the contrast ratio                   *)
(* (max + 0.05) / (min + 0.05) between the chosen quote color and L is at  *)
(* least 2.2.                                                              *)
C12_QuoteContrast ==
    pc = "done" /\ "L" \in DOMAIN args =>
        ~ContrastBelow22(relLuma(ret.quoteColor), args.L)

\* C12 away from the cut: white on L <= 0.42, near-black on L > 0.55
C12_QuoteContrast_AwayFromCut ==
    pc = "done" /\ "L" \in DOMAIN args /\ (args.L <= 4200 \/ args.L > 5500) =>
        ~ContrastBelow22(relLuma(ret.quoteColor), args.L)

(***************************************************************************)
(* The wall page's renderCard (page.tsx:319-503; the realtime wall at      *)
(* 1169-1353 is the same code).  A card record comes from the feed as it   *)
(* was stored, so its width and height are JavaScript values of any type.  *)
(***************************************************************************)
\* JavaScript values of a field of a card record
Num(n) == [t |-> "number", n |-> n]
NaN == [t |-> "NaN"]
Undefined == [t |-> "undefined"]
Null == [t |-> "null"]
Str(s) == [t |-> "string", s |-> s]

Digits == <<"0", "1", "2", "3", "4", "5", "6", "7", "8", "9">>

\* the value of a string of decimal digits
RECURSIVE DigitsValue(_)
DigitsValue(s) ==
    IF s = <<>> THEN 0
    ELSE DigitsValue(SubSeq(s, 1, Len(s) - 1)) * 10 + IndexOf(Digits, s[Len(s)])

\* Number(s) of a string: whitespace trimmed, "" is 0, an optional sign and
\* decimal digits are the integer, anything else is NaN
StringToNumber(s) ==
    LET t == trim(s)
        signed == t # <<>> /\ t[1] \in {"-", "+"}
        body == IF signed THEN Tail(t) ELSE t
    IN IF t = <<>> THEN Num(0)
       ELSE IF body # <<>> /\ \A k \in DOMAIN body : body[k] \in Range(Digits)
       THEN Num(IF signed /\ t[1] = "-" THEN 0 - DigitsValue(body)
                ELSE DigitsValue(body))
       ELSE NaN

\* Number(v)
ToNumber(v) ==
    CASE v.t = "number" -> v
      [] v.t = "NaN" -> NaN
      [] v.t = "undefined" -> NaN
      [] v.t = "null" -> Num(0)
      [] v.t = "string" -> StringToNumber(v.s)

\* Number(v) || 1 : NaN and 0 are falsy
NumberOr1(v) ==
    LET n == ToNumber(v)
    IN IF n.t = "NaN" \/ n.n = 0 THEN 1 ELSE n.n

\* Math.max(1, Number(v) || 1)
wallDimNoClamp(v) == NumberOr1(v)
wallDim(v) == Max(1, NumberOr1(v))

\* Number(card.quoteSizeMultiplier || 100): the multipliers are numbers
wallMul(m) == IF m = 0 THEN 100 ELSE m

\* the design fields of a card record
designOf(card) ==
    [palette |-> card.palette, gradient |-> card.gradient, font |-> card.font,
     bgType |-> card.bgType, layout |-> card.layout, seed |-> card.seed]

\* the layout branch of the wall's renderCard: left, icon-top and split
wallLayoutOf(card, width, height, padding) ==
    LET accent == card.palette.accent
        acc(op, geom) == <<Op("accent", op, <<accent>>, geom, <<>>)>>
        dflt == [contentY |-> height * 52, contentX |-> width * 50,
                 align |-> "center", innerMax |-> width * 100 - padding * 2,
                 accent |-> <<>>]
        layout == card.layout
    IN CASE layout = "left" ->
              [dflt EXCEPT !.align = "left", !.contentX = padding,
                           !.contentY = height * 46]
         [] layout = "icon-top" ->
              [dflt EXCEPT !.contentY = height * 56,
                           !.accent = acc("arc", <<width * 50, height * 22, 5400>>)]
         [] layout = "split" ->
              IF height >= width
              THEN [dflt EXCEPT !.contentY = height * 58,
                                !.accent = acc("fillRect",
                                               <<0, 0, width * 100, height * 32>>)]
              ELSE [dflt EXCEPT !.align = "left", !.contentX = width * 38,
                                !.innerMax = width * 55,
                                !.accent = acc("fillRect",
                                               <<0, 0, width * 32, height * 100>>)]
         [] OTHER -> dflt

\* a canvas element: its bitmap size and what was drawn on it since the
\* size was last set
Canvas(width, height, ops) == [width |-> width, height |-> height, ops |-> ops]

\* what a call of a renderer leaves: the canvas, whether it threw, and the
\* steps it took in order ("size" is the assignment of canvas.width/height)
Rendered(renderer, canvas, threw, log) ==
    [renderer |-> renderer, canvas |-> canvas, threw |-> threw, log |-> log]

StepsOf(ops) == [k \in DOMAIN ops |-> ops[k].step]

\* renderCard(canvas, card) of the wall; hasCtx is whether
\* canvas.getContext("2d") gives a context
wallRenderCard(canvas, hasCtx, card) ==
    IF ~hasCtx THEN Rendered("wall", canvas, FALSE, <<>>)
    ELSE
    LET width == wallDim(card.width)
        height == wallDim(card.height)
        design == designOf(card)
        padding == width * 10
        qSize == (width * 5 * wallMul(card.quoteSizeMultiplier)) \div 10000
        hasAuthor == trim(card.author) # <<>>
        aSize == IF hasAuthor
                 THEN (width * 34 * wallMul(card.authorSizeMultiplier)) \div 100000
                 ELSE 0
        sz == [width |-> width, height |-> height, padding |-> padding,
               qSize |-> qSize, qLine |-> qSize * 138, hasAuthor |-> hasAuthor,
               aSize |-> aSize, aGap |-> IF hasAuthor THEN aSize * 60 ELSE 0]
        isDark == card.bgType = "dark"
        doodles == <<drawDoodles(width, height,
                                 IF isDark THEN "rgba(255,255,255,1)"
                                 ELSE card.palette.accent,
                                 card.seed + 999)>>
        sample == Op("colors", "getImageData", <<>>,
                     <<(width * 22) \div 100, (height * 30) \div 100,
                       (width * 56) \div 100, (height * 40) \div 100>>, <<>>)
    IN With(wallLayoutOf(card, width, height, padding), LAMBDA lay :
       With(<<roundedRectPath(width, height, card.radius)>>
            \o drawBackground(design, width, height) \o doodles \o lay.accent,
            LAMBDA ctx :
       With(chooseTextColors(ctx, width, height, card.palette), LAMBDA colors :
       With([font |-> fontCtx(qSize, card.font.quote), text |-> card.quote],
            LAMBDA quote :
       With(wrapTextSmart(quote.font, quote.text, lay.innerMax),
            LAMBDA textLines :
       With(ctx \o <<sample>>
            \o drawText(sz, lay, colors, design, card.author, textLines),
            LAMBDA ops :
            Rendered("wall", Canvas(width, height, ops), FALSE,
                     <<"size">> \o StepsOf(ops))))))))

\* the generator's renderCard on a canvas: has.m and has.c are whether the
\* measuring canvas and the card's canvas give a 2D context.  Both are
\* taken with a non-null assertion: ctxM.font = ... throws on a null
\* ctxM before the canvas is touched, and ctx.save() throws on a null ctx
\* after canvas.width and canvas.height were assigned.
renderCardCtx(canvas, has, dom, quote, author, design, format, radius, sizeOverride) ==
    IF ~has.m THEN Rendered("generator", canvas, TRUE, <<>>)
    ELSE IF ~has.c
    THEN With(cardSize(dom, quote, author, design, format, sizeOverride), LAMBDA sz :
              Rendered("generator", Canvas(sz.width, sz.height, <<>>), TRUE,
                       <<"size">>))
    ELSE With(renderCard(dom, quote, author, design, format, radius, sizeOverride),
              LAMBDA c : Rendered("generator", c, FALSE,
                                  <<"size">> \o StepsOf(c.ops)))

(***************************************************************************)
(* Specification SpecCanvas: one call of a renderer on a canvas element,   *)
(* the wall's renderCard on a card record of the feed or the generator's   *)
(* renderCard on the same text and design.  The calls cover every          *)
(* background and layout name of the catalogs and of the renderers, names  *)
(* no renderer knows, blank and non-blank quotes and authors, card sizes   *)
(* of every JavaScript type, and canvases that give no 2D context.         *)
(***************************************************************************)
KnownBgTypes ==
    {"solid", "gradient", "glass", "dark", "paper", "noise", "stripes",
     "halftone", "blobs"}
KnownLayouts ==
    {"centered", "left", "icon-top", "split", "bordered", "underline",
     "footer", "corner-frame", "diagonal"}
BgTypeNames ==
    UNION {Range(STYLE_PACKS[p].bgTypes) : p \in DOMAIN STYLE_PACKS}
    \cup KnownBgTypes \cup {"mesh", ""}
CanvasLayoutNames == LayoutNames \cup {"grid", ""}

CanvasQuotes == {<<>>, <<" ", "\t">>, Words(1)}
CanvasAuthors == {<<>>, <<" ">>, <<"W", "a">>}

\* the widths and heights a stored card record can have
DimValues ==
    {Num(n) : n \in {0 - 1080, 0, 1, 900, 1080}}
    \cup {NaN, Undefined, Null, Str(<<>>), Str(<<"W">>), Str(<<"1", "0", "8", "0">>),
          Str(<<"-", "9">>)}

\* a new canvas element, and one that holds a card
Canvases ==
    {Canvas(300, 150, <<>>),
     Canvas(1080, 1080, <<Op("background", "fillRect", <<"#ffffff">>,
                             <<0, 0, 108000, 108000>>, <<>>)>>)}

CardRecord(quote, author, width, height, bgType, layout) ==
    [quote |-> quote, author |-> author, width |-> width, height |-> height,
     palette |-> PALETTES[1], gradient |-> GRADIENTS[1], font |-> FONTS[1],
     bgType |-> bgType, layout |-> layout, seed |-> 5, radius |-> 26,
     quoteSizeMultiplier |-> 100, authorSizeMultiplier |-> 100]

AllContexts == [m |-> TRUE, c |-> TRUE]

\* every design on a card as the generator sized it
DesignCalls ==
    {[canvas |-> Canvas(300, 150, <<>>), has |-> AllContexts, format |-> f,
      card |-> CardRecord(q, a, Num(FORMATS[f].minWidth), Num(FORMATS[f].minHeight),
                          b, l)] :
        f \in {"square", "landscape"}, q \in CanvasQuotes, a \in CanvasAuthors,
        b \in BgTypeNames, l \in CanvasLayoutNames}
\* every stored size
SizeCalls ==
    {[canvas |-> Canvas(300, 150, <<>>), has |-> AllContexts, format |-> "square",
      card |-> CardRecord(Words(1), a, w, h, "solid", "centered")] :
        a \in {<<>>, <<"W", "a">>}, w \in DimValues, h \in DimValues}
\* every canvas, with and without a context
ContextCalls ==
    {[canvas |-> c, has |-> has, format |-> f,
      card |-> CardRecord(q, <<"W", "a">>, w, Num(1350), "dark", l)] :
        c \in Canvases, has \in [m : BOOLEAN, c : BOOLEAN],
        f \in {"square", "portrait"}, q \in CanvasQuotes, w \in {Num(1080), Num(0)},
        l \in {"centered", "split"}}

InitCanvas ==
    /\ pc = "call"
    /\ args \in DesignCalls \cup SizeCalls \cup ContextCalls
    /\ ret = <<>>
    /\ locals = <<>>
    /\ ControlsAtDefault /\ NoCards
    /\ stylePack \in {"balanced", "minimal"}
    /\ quoteSize = 95 /\ authorSize = 105
    /\ now = 0 /\ prng = 1
    /\ NoIO

CallWallRenderCard ==
    /\ pc = "call"
    /\ pc' = "done"
    /\ ret' = wallRenderCard(args.canvas, args.has.c, args.card)
    /\ UNCHANGED <<args, locals, domVars, cardVars, envVars, ioVars>>

CallRenderCard ==
    /\ pc = "call"
    /\ pc' = "done"
    /\ ret' = renderCardCtx(args.canvas, args.has, Dom, args.card.quote,
                            args.card.author, designOf(args.card), args.format,
                            args.card.radius,
                            [w |-> NULL, h |-> NULL, previewW |-> NULL])
    /\ UNCHANGED <<args, locals, domVars, cardVars, envVars, ioVars>>

NextCanvas == CallWallRenderCard \/ CallRenderCard

SpecCanvas == InitCanvas /\ [][NextCanvas]_vars

\* the operations of one step of a rendered canvas
OpsOfStep(canvas, step) == SelectSeq(canvas.ops, LAMBDA o : o.step = step)

\* the layout record the renderer of ret computes for a layout name, on the
\* canvas size it used
LayoutUsed(layout) ==
    LET card == [args.card EXCEPT !.layout = layout]
        width == ret.canvas.width
        height == ret.canvas.height
    IN IF ret.renderer = "wall"
       THEN wallLayoutOf(card, width, height, width * 10)
       ELSE layoutOf(designOf(card), width, height, width * 10)

\* centered, at the full available width, with no accent
CenteredFullWidth(lay) ==
    /\ lay.align = "center"
    /\ lay.contentX = ret.canvas.width * 50
    /\ lay.contentY = ret.canvas.height * 52
    /\ lay.innerMax = ret.canvas.width * 100 - 2 * (ret.canvas.width * 10)
    /\ lay.accent = <<>>

\* a call that had its contexts and has returned
RenderedWithContext ==
    /\ pc = "done"
    /\ IF ret.renderer = "wall" THEN args.has.c ELSE args.has = AllContexts

DesignRenderable ==
    LET card == args.card
        lay == LayoutUsed(card.layout)
    IN /\ ~ret.threw
       /\ OpsOfStep(ret.canvas, "accent") = lay.accent
       /\ \A k \in DOMAIN ret.canvas.ops :
              ret.canvas.ops[k].step \in {"quote", "author"}
              => ret.canvas.ops[k].style[2] = lay.align
       /\ card.bgType \notin KnownBgTypes
          => OpsOfStep(ret.canvas, "background")
             = <<Op("background", "fillRect", <<card.palette.bg>>,
                    <<0, 0, ret.canvas.width * 100, ret.canvas.height * 100>>, <<>>)>>
       /\ card.layout \notin KnownLayouts => CenteredFullWidth(lay)
       /\ card.layout \in KnownLayouts
          => /\ card.layout \notin {"centered", "left"} => Len(lay.accent) = 1
             /\ \A other \in KnownLayouts \ {card.layout} :
                    LayoutUsed(other) # lay

\* C13: for every bgType and layout string renderCard completes; an unknown
\* bgType is drawn as a solid fill of palette.bg, an unknown layout is drawn
\* centered at width minus twice the padding with no accent, and each of the
\* nine documented layouts has an accent and anchor of its own.
C13_DesignRenderable == RenderedWithContext => DesignRenderable

\* C13 for the generator's renderCard alone
C13_DesignRenderable_Generator ==
    (RenderedWithContext /\ ret.renderer = "generator") => DesignRenderable

\* C13 on the wall for the three layouts its renderCard has a branch for,
\* and for the names no renderer knows
C13_DesignRenderable_WallBranches ==
    (RenderedWithContext /\ ret.renderer = "wall"
     /\ args.card.layout \notin KnownLayouts \ {"left", "icon-top", "split"})
    => DesignRenderable

\* a call whose canvas gave no 2D context has returned
RenderedWithoutContext ==
    /\ pc = "done"
    /\ IF ret.renderer = "wall" THEN ~args.has.c ELSE args.has # AllContexts

\* the call returned normally and left the canvas as it was
NoOp ==
    /\ ~ret.threw
    /\ ret.canvas = args.canvas
    /\ ret.log = <<>>

\* C14: when the 2D context cannot be acquired, renderCard (generator and
\* wall) returns without throwing, leaves the canvas dimensions as they
\* were and issues no draw operation.
C14_NoContextNoOp == RenderedWithoutContext => NoOp

\* C14 for the wall's renderCard alone
C14_NoContextNoOp_Wall ==
    (RenderedWithoutContext /\ ret.renderer = "wall") => NoOp

\* the generator's renderCard has returned from a call with a blank quote
RenderedBlankQuote ==
    /\ RenderedWithContext
    /\ ret.renderer = "generator"
    /\ trim(args.card.quote) = <<>>

\* background and decorations (the doodles, which the minimal pack leaves
\* out), and no fillText
BackgroundAndDecorationsOnly ==
    /\ ~ret.threw
    /\ OpsOfStep(ret.canvas, "background") # <<>>
    /\ stylePack # "minimal" => OpsOfStep(ret.canvas, "decorations") # <<>>
    /\ \A k \in DOMAIN ret.canvas.ops : ret.canvas.ops[k].op # "fillText"

C15_BlankQuoteNoText_BlankAuthor ==
    (RenderedBlankQuote /\ trim(args.card.author) = <<>>)
    => BackgroundAndDecorationsOnly

\* the wall's renderCard has returned from a call that had its context
WallRendered ==
    /\ pc = "done"
    /\ ret.renderer = "wall"
    /\ args.has.c

\* a stored size that is zero, negative, missing or not a number
Degenerate(v) ==
    LET n == ToNumber(v)
    IN v.t # "number" \/ n.t = "NaN" \/ n.n <= 0

\* C16: for every card record, whatever its width and height, the wall's
\* renderCard uses a width and a height of at least 1, sets them on the
\* canvas before any drawing operation and draws at that size.
C16_WallDimensions ==
    WallRendered
    => /\ ret.canvas.width >= 1
       /\ ret.canvas.height >= 1
       /\ ret.log[1] = "size"
       /\ \A k \in 2..Len(ret.log) : ret.log[k] # "size"
       /\ ret.canvas.ops[1].geom[1] = ret.canvas.width * 100
       /\ ret.canvas.ops[1].geom[2] = ret.canvas.height * 100

C16_Witness ==
    /\ WallRendered
    /\ Degenerate(args.card.width)
    /\ ToNumber(args.card.height).t = "number" /\ ToNumber(args.card.height).n < 0
    /\ ret.canvas.width = 1
    /\ ret.canvas.height = 1
    /\ Len(ret.canvas.ops) > 3

(***************************************************************************)
(* Export and publish: copyImage, downloadImage and uploadToWall of the    *)
(* generator (page.tsx:1871-1953) and copyCanvasImage of the two wall      *)
(* pages (505-543, 1355-1378).  What the browser and the database do is    *)
(* the environment's choice: canvas.toBlob gives a blob or null, the       *)
(* window has a ClipboardItem or not, navigator.clipboard.write and        *)
(* push resolve or reject.                                                 *)
(***************************************************************************)
\* what a call of an export function ends in: whether something the
\* environment did failed, whether the failure left the function as an
\* uncaught error, the toast it showed ("" for none) and what it handed out
Report(op, failed, threw, message, effects) ==
    [op |-> op, failed |-> failed, threw |-> threw, message |-> message,
     effects |-> effects]

\* copyImage(canvas) of the generator
copyImage(env) ==
    IF env.blob /\ env.clipboardItem /\ env.write
    THEN Report("copyImage", FALSE, FALSE, "Copied image", <<"clipboard">>)
    ELSE Report("copyImage", TRUE, FALSE,
                "Clipboard failed. Use HTTPS or localhost.", <<>>)

\* downloadImage(canvas, index) of the generator
downloadImage(env) ==
    IF ~env.blob
    THEN Report("downloadImage", TRUE, FALSE, "", <<>>)
    ELSE Report("downloadImage", FALSE, FALSE, "Downloaded", <<"download">>)

\* copyCanvasImage(canvas) of the paginated wall: a failed copy falls back
\* to a download, which asks the canvas for a blob again (env.blob2)
copyCanvasImage(env) ==
    IF env.blob /\ env.clipboardItem /\ env.write
    THEN Report("copyCanvasImage", FALSE, FALSE, "Copied image", <<"clipboard">>)
    ELSE IF env.blob2
    THEN Report("copyCanvasImage", TRUE, FALSE,
                "Downloaded image (copy requires HTTPS)", <<"download">>)
    ELSE Report("copyCanvasImage", TRUE, FALSE,
                "Use HTTPS or allow clipboard permission", <<>>)

\* copyCanvasImage(canvas) of the realtime wall
copyCanvasImageRealtime(env) ==
    IF env.blob /\ env.clipboardItem /\ env.write
    THEN Report("copyCanvasImageRealtime", FALSE, FALSE, "Copied image",
                <<"clipboard">>)
    ELSE Report("copyCanvasImageRealtime", TRUE, FALSE,
                "Copy failed. Use HTTPS/localhost and allow clipboard permission.",
                <<>>)

\* the cardData record of uploadToWall
cardData(dom, design, canvas, time) ==
    [quote |-> trim(dom.quoteText), author |-> trim(dom.authorText),
     width |-> Num(canvas.width), height |-> Num(canvas.height),
     palette |-> design.palette, gradient |-> design.gradient,
     font |-> design.font, bgType |-> design.bgType, layout |-> design.layout,
     seed |-> design.seed, format |-> dom.formatSelect,
     radius |-> dom.radiusSelect, quoteSizeMultiplier |-> dom.quoteSize,
     authorSizeMultiplier |-> dom.authorSize, createdAt |-> time]

\* a call of uploadToWall: the card it was clicked on, how many times it
\* called push, where it stands ("blank", "pending", "appended", "failed"),
\* the toast it showed and the record it pushed
Upload(index, pushes, status, message, data) ==
    [index |-> index, pushes |-> pushes, status |-> status, message |-> message,
     data |-> data]

\* uploadToWall(canvas, index) up to  await push(wallRef, cardData) : the
\* page it leaves and the call.  The emoji of the success toast is left out.
uploadToWallRerender(dom, page, index, time) ==
    IF trim(dom.quoteText) = <<>>
    THEN [page |-> [page EXCEPT !.toast = "Please enter a quote"],
          call |-> Upload(index, 0, "blank", "Please enter a quote", <<>>)]
    ELSE IF index + 1 \notin DOMAIN page.designsCache
    THEN [page |-> [page EXCEPT !.toast = "Upload failed. Check Firebase config."],
          call |-> Upload(index, 0, "failed",
                          "Upload failed. Check Firebase config.", <<>>)]
    ELSE [page |-> renderAll(dom, page, TRUE, NULL),
          call |-> Upload(index, 1, "pending", "",
                          <<cardData(dom, page.designsCache[index + 1],
                                     page.domCards[index + 1].canvas, time)>>)]
uploadToWall(dom, page, index, time) ==
    IF trim(dom.quoteText) = <<>>
    THEN [page |-> [page EXCEPT !.toast = "Please enter a quote"],
          call |-> Upload(index, 0, "blank", "Please enter a quote", <<>>)]
    ELSE IF index + 1 \notin DOMAIN page.designsCache
    THEN [page |-> [page EXCEPT !.toast = "Upload failed. Check Firebase config."],
          call |-> Upload(index, 0, "failed",
                          "Upload failed. Check Firebase config.", <<>>)]
    ELSE [page |-> page,
          call |-> Upload(index, 1, "pending", "",
                          <<cardData(dom, page.designsCache[index + 1],
                                     page.domCards[index + 1].canvas, time)>>)]

\* uploadToWall after the await: push resolved (ok) or rejected
pushSettledRetry(call, ok) ==
    IF ok THEN [call EXCEPT !.status = "appended",
                            !.message = "Uploaded to Praise Wall!"]
    ELSE [call EXCEPT !.pushes = @ + 1]
pushSettled(call, ok) ==
    IF ok THEN [call EXCEPT !.status = "appended",
                            !.message = "Uploaded to Praise Wall!"]
    ELSE [call EXCEPT !.status = "failed",
                      !.message = "Upload failed. Check Firebase config."]

(***************************************************************************)
(* Specification SpecPublish: the generator page with the buttons of its   *)
(* cards.  The quote is typed or cleared, a card's Upload, Copy or         *)
(* Download button is clicked, a pending push settles, and a card of the   *)
(* feed is copied on a wall page.  A session has up to MaxPublishEvents    *)
(* events; a push settles at any time after its click.                     *)
(***************************************************************************)
MaxPublishEvents == 4

\* the cards whose buttons are clicked
ButtonCards == {0, 1}

ExportEnvs ==
    [blob : BOOLEAN, clipboardItem : BOOLEAN, write : BOOLEAN, blob2 : BOOLEAN]

UploadToWall ==
    /\ now < MaxPublishEvents
    /\ \E index \in ButtonCards :
          /\ index + 1 \in DOMAIN domCards
          /\ \E r \in {uploadToWall(Dom, Page, index, now)} :
                /\ uploads' = Append(uploads, r.call)
                /\ designsCache' = r.page.designsCache
                /\ cardState' = r.page.cardState
                /\ domCards' = r.page.domCards
                /\ toast' = r.page.toast
    /\ now' = now + 1
    /\ UNCHANGED <<quoteText, authorText, formatSelect, countSelect, radiusSelect,
                   stylePack, liveUpdate, quoteSize, authorSize, prng, callVars,
                   feed, drag, wallVars>>

\* the promise of push settles and uploadToWall runs on from its await
PushSettled ==
    /\ \E k \in DOMAIN uploads, ok \in BOOLEAN :
          /\ uploads[k].status = "pending"
          /\ \E c \in {pushSettled(uploads[k], ok)} :
                /\ uploads' = [uploads EXCEPT ![k] = c]
                /\ toast' = IF c.message # "" THEN c.message ELSE toast
          /\ feed' = IF ok THEN Append(feed, [request |-> k, data |-> uploads[k].data[1]])
                     ELSE feed
    /\ UNCHANGED <<quoteText, authorText, formatSelect, countSelect, radiusSelect,
                   stylePack, liveUpdate, quoteSize, authorSize, cardVars, envVars,
                   callVars, drag, wallVars>>

\* a click on a button of a card of the generator: ret is the report of
\* the export function it ran
Exported(report) ==
    /\ domCards # <<>>
    /\ now < MaxPublishEvents
    /\ ret' = report
    /\ toast' = IF report.message # "" THEN report.message ELSE toast
    /\ now' = now + 1
    /\ UNCHANGED <<quoteText, authorText, formatSelect, countSelect, radiusSelect,
                   stylePack, liveUpdate, quoteSize, authorSize, cardVars, prng,
                   pc, args, locals, ioVars>>

CopyImage == \E env \in ExportEnvs : Exported(copyImage(env))

DownloadImage == \E env \in ExportEnvs : Exported(downloadImage(env))

\* a click on Copy on a card of a wall page, which has a toast of its own
WallExported(report) ==
    /\ feed # <<>>
    /\ now < MaxPublishEvents
    /\ ret' = report
    /\ now' = now + 1
    /\ UNCHANGED <<domVars, cardVars, prng, pc, args, locals, ioVars>>

CopyCanvasImage == \E env \in ExportEnvs : WallExported(copyCanvasImage(env))

CopyCanvasImageRealtime ==
    \E env \in ExportEnvs : WallExported(copyCanvasImageRealtime(env))

NextPublish ==
    \/ QuoteInputWithin(MaxPublishEvents)
    \/ UploadToWall \/ PushSettled
    \/ CopyImage \/ DownloadImage
    \/ CopyCanvasImage \/ CopyCanvasImageRealtime

SpecPublish == InitGen /\ [][NextPublish]_vars

\* the records of the feed that a call of uploadToWall appended
AppendedBy(k) == {j \in DOMAIN feed : feed[j].request = k}

\* C17: one call of uploadToWall calls push at most once and appends at
\* most one record; a call whose append failed has shown a message and has
\* not pushed again; a call on a blank quote has pushed nothing.
C17_PublishAtMostOnce ==
    \A k \in DOMAIN uploads :
        LET u == uploads[k]
        IN /\ u.pushes <= 1
           /\ Cardinality(AppendedBy(k)) <= u.pushes
           /\ u.status = "appended" <=> Cardinality(AppendedBy(k)) = 1
           /\ u.status = "blank" => u.pushes = 0 /\ u.message # ""
           /\ u.status = "failed" => u.message # "" /\ AppendedBy(k) = {}

C17_Witness ==
    /\ \E k \in DOMAIN uploads :
          /\ uploads[k].status = "failed"
          /\ uploads[k].pushes = 1
          /\ toast = uploads[k].message
    /\ \E k \in DOMAIN uploads : uploads[k].status = "blank"
    /\ feed = <<>>

\* C18: a step of uploadToWall, up to its push or after it, whether the
\* push resolved or was rejected, leaves designsCache, cardState and the
\* displayed cards with their canvases as they were.
C18_PublishLeavesLocalState ==
    [][uploads' # uploads => UNCHANGED <<designsCache, cardState, domCards>>]_vars

C18_Witness ==
    /\ \E k \in DOMAIN uploads : uploads[k].status = "appended"
    /\ \E k \in DOMAIN uploads : uploads[k].status = "failed" /\ uploads[k].pushes = 1
    /\ Len(domCards) = countSelect
    /\ Len(feed) = 1

\* the last export function that ran met a failure of its environment
ExportFailed == DOMAIN ret # {} /\ ret.failed

\* the failure was caught and the user was told or given the image
Surfaced == ~ret.threw /\ (ret.message # "" \/ ret.effects # <<>>)

\* C19: every failure of copyImage, copyCanvasImage, downloadImage and
\* uploadToWall (no blob, no clipboard, a rejected write) is caught inside
\* the function and ends in a message or a fallback, never silently.
C19_FailuresSurface ==
    /\ ExportFailed => Surfaced
    /\ \A k \in DOMAIN uploads : uploads[k].status = "failed" => uploads[k].message # ""

\* C19 for the functions other than downloadImage
C19_FailuresSurface_ExceptDownload ==
    /\ (ExportFailed /\ ret.op # "downloadImage") => Surfaced
    /\ \A k \in DOMAIN uploads : uploads[k].status = "failed" => uploads[k].message # ""

(***************************************************************************)
(* Resizing a card by its handle: attachResize (page.tsx:2476-2571).       *)
(***************************************************************************)
\* rightPanel.getBoundingClientRect().width, in CSS px
PanelWidth == 476

\* clamp(v, min, max)
clamp(v, min, max) == Max(min, Min(max, v))

\* onDown: the closure of the pressed handle
onDown(index, canvas) ==
    [dragging |-> TRUE, index |-> index, startW |-> canvas.width,
     startH |-> canvas.height]

\* onMove of the handle being dragged, dx = (e.clientX - startX) * scale
\* rounded to export px: the page it leaves
onMove(dom, page, d, dx) ==
    LET base == FORMATS[dom.formatSelect]
        maxPreview == PanelWidth - 56
        maxExportW == (maxPreview * 100) \div 28
        newW == Min(Max(base.minWidth, d.startW + dx), maxExportW)
        newH == d.startH
        prev == IF d.index + 1 \in DOMAIN page.cardState
                THEN page.cardState[d.index + 1] ELSE NoCardState
        st == [w |-> newW, h |-> newH,
               previewW |-> clamp(RoundDiv100(newW * 28), 260, maxPreview)]
    IN IF prev.w = newW /\ prev.h = newH THEN page
       ELSE renderAll(dom, [page EXCEPT !.cardState[d.index + 1] = st], FALSE,
                      d.index)

(***************************************************************************)
(* Specification SpecDrag: the generator page with the resize handle of    *)
(* its first card.  The quote is typed or cleared, the count is changed,   *)
(* live update is switched, and the handle is pressed, moved by one of     *)
(* DragSteps and released.  A session has up to MaxDragEvents events on    *)
(* the controls; the clock, which only makeDesigns reads, stays through a  *)
(* pointer event where the last event on a control left it.                *)
(***************************************************************************)
MaxDragEvents == 5

\* the cards whose handle is dragged
DragCards == {0}

\* the pointer's way since the press, in export px
DragSteps == {400}

PointerDown ==
    /\ ~drag.dragging
    /\ \E index \in DragCards :
          /\ index + 1 \in DOMAIN domCards
          /\ drag' = onDown(index, domCards[index + 1].canvas)
    /\ UNCHANGED <<domVars, cardVars, envVars, callVars, feed, uploads, wallVars>>

PointerMove ==
    /\ drag.dragging
    /\ \E dx \in DragSteps :
          \E p \in {onMove(Dom, Page, drag, dx)} :
              /\ designsCache' = p.designsCache
              /\ cardState' = p.cardState
              /\ domCards' = p.domCards
              /\ toast' = p.toast
    /\ UNCHANGED <<quoteText, authorText, formatSelect, countSelect, radiusSelect,
                   stylePack, liveUpdate, quoteSize, authorSize, envVars, callVars,
                   ioVars>>

\* onUp
PointerUp ==
    /\ drag.dragging
    /\ drag' = [drag EXCEPT !.dragging = FALSE]
    /\ UNCHANGED <<domVars, cardVars, envVars, callVars, feed, uploads, wallVars>>

NextDrag ==
    \/ QuoteInputWithin(MaxDragEvents)
    \/ CountChangeWithin(MaxDragEvents)
    \/ LiveUpdateToggleWithin(MaxDragEvents)
    \/ PointerDown \/ PointerMove \/ PointerUp

SpecDrag == InitGen /\ [][NextDrag]_vars

\* a step of onMove of the dragged handle that changed the page
DragMoved ==
    /\ drag.dragging
    /\ drag' = drag
    /\ now' = now
    /\ <<designsCache, cardState, domCards>>' # <<designsCache, cardState, domCards>>

\* the card of the dragged handle, from 1
Dragged == drag.index + 1

\* designsCache, cardState and the canvases of the other cards stay, and
\* the dragged card keeps its design
SiblingsUntouched ==
    /\ Len(designsCache') = Len(designsCache)
    /\ Len(cardState') = Len(cardState)
    /\ Len(domCards') = Len(domCards)
    /\ designsCache' = designsCache
    /\ \A j \in DOMAIN cardState : j # Dragged => cardState'[j] = cardState[j]
    /\ \A j \in DOMAIN domCards : j # Dragged => domCards'[j] = domCards[j]

\* C20: after any sequence of events on the controls, a drag move on card
\* i re-renders card i alone: the design, the cardState entry and the
\* canvas of every other card are as before, and card i keeps its design.
C20_DragLeavesSiblings == [][DragMoved => SiblingsUntouched]_vars

\* C20 for a drag move made while designsCache has countSelect designs
C20_DragLeavesSiblings_InSync ==
    [][(DragMoved /\ Len(designsCache) = countSelect) => SiblingsUntouched]_vars

(***************************************************************************)
(* Specification SpecRoundTrip: a card goes from the generator to a wall.  *)
(* The generator draws it with renderCard, uploadToWall builds its record  *)
(* from the controls, the design and the canvas, and the wall's            *)
(* renderCard draws the record on a canvas of its own.  The design has a   *)
(* bgType and a layout of the selected pack; the quote fits one line or    *)
(* wraps; quote and author come with and without a leading blank.          *)
(***************************************************************************)
RoundTripQuotes == {Words(1), <<" ">> \o Words(2), Words(8)}
RoundTripAuthors == {<<>>, <<"W", "a">>, <<" ", "W", "a">>}

PackDesigns(pack) ==
    [palette : {PALETTES[1]}, gradient : {GRADIENTS[1]}, font : {FONTS[1]},
     bgType : Range(STYLE_PACKS[pack].bgTypes),
     layout : Range(STYLE_PACKS[pack].layouts), seed : {5}]

InitRoundTrip ==
    /\ pc = "call"
    /\ stylePack \in StylePackOptions
    /\ args \in [design : PackDesigns(stylePack)]
    /\ ret = <<>>
    /\ locals = <<>>
    /\ quoteText \in RoundTripQuotes
    /\ authorText \in RoundTripAuthors
    /\ formatSelect \in FormatOptions
    /\ countSelect = 6 /\ radiusSelect = 26 /\ liveUpdate = TRUE /\ toast = ""
    /\ NoCards
    /\ quoteSize = 95 /\ authorSize = 105
    /\ now = 0 /\ prng = 1
    /\ NoIO

\* renderCard on the generator, cardData of uploadToWall, renderCard on
\* the wall
CallRoundTrip ==
    /\ pc = "call"
    /\ pc' = "done"
    /\ \E shown \in {renderCard(Dom, quoteText, authorText, args.design,
                                formatSelect, radiusSelect, NoCardState)} :
       \E record \in {cardData(Dom, args.design, shown, now)} :
          ret' = [shown |-> shown, record |-> record,
                  wall |-> wallRenderCard(Canvas(300, 150, <<>>), TRUE, record)]
    /\ UNCHANGED <<args, locals, domVars, cardVars, envVars, ioVars>>

NextRoundTrip == CallRoundTrip

SpecRoundTrip == InitRoundTrip /\ [][NextRoundTrip]_vars

\* the wall drew what the generator drew
SameDrawing == pc = "done" => ret.wall.canvas = ret.shown

\* C21: for every card the generator renders and publishes, the wall's
\* renderCard on the record of uploadToWall issues the draw operations the
\* generator's renderCard issued: same size, background, decorations,
\* accent, anchor, line breaks and text positions.
C21_RecordDeterminesCard == SameDrawing

\* C21 for the cards of a pack other than minimal, with a layout the wall
\* has a branch for or the default, and an author without a leading blank
C21_RecordDeterminesCard_WallLayouts ==
    (/\ stylePack # "minimal"
     /\ args.design.layout \in {"centered", "left", "icon-top", "split", "side-stripe"}
     /\ trim(authorText) = authorText)
    => SameDrawing

\* the place of a drawing step in the order of renderCard
StepRank(step) ==
    CASE step = "clip" -> 1
      [] step = "background" -> 2
      [] step = "decorations" -> 3
      [] step = "accent" -> 4
      [] step = "colors" -> 5
      [] step = "quote" -> 6
      [] step = "author" -> 7

\* the operations of a canvas come in the order of the steps; the steps
\* other than the background fills and the quote lines take one operation
InStepOrder(canvas) ==
    LET ops == canvas.ops
    IN /\ ops[1].step = "clip"
       /\ \A k \in 1..(Len(ops) - 1) :
              /\ StepRank(ops[k].step) <= StepRank(ops[k + 1].step)
              /\ ops[k].step \notin {"background", "quote"}
                 => StepRank(ops[k].step) < StepRank(ops[k + 1].step)

\* the text colors are those of the canvas as drawn up to the sampling
ColorsOfDrawnCanvas(canvas, palette) ==
    LET ops == canvas.ops
    IN \E s \in DOMAIN ops :
          /\ ops[s].step = "colors"
          /\ \A k \in DOMAIN ops :
                 LET colors == chooseTextColors(SubSeq(ops, 1, s - 1), canvas.width,
                                                canvas.height, palette)
                 IN /\ ops[k].step = "quote" => ops[k].style[1] = colors.quoteColor
                    /\ ops[k].step = "author" => ops[k].style[1] = colors.authorColor

\* the quote lines go down from the clamped start y of the wrapped block,
\* a line height apart, and the author line comes below them
TextTopToBottom(canvas, design) ==
    LET ops == canvas.ops
        quotes == OpsOfStep(canvas, "quote")
        authors == OpsOfStep(canvas, "author")
        lay == layoutOf(design, canvas.width, canvas.height, canvas.width * 10)
        qLine == IF quotes = <<>> THEN 0 ELSE quotes[1].geom[3] * 138
        aSize == IF authors = <<>> THEN 0 ELSE authors[1].geom[3]
        totalH == Len(quotes) * qLine + aSize * 60 + aSize * 160
        y == computeSafeStartY(lay.contentY, totalH, canvas.width * 9,
                               canvas.height * 100 - canvas.width * 9)
    IN /\ \A k \in DOMAIN quotes : quotes[k].geom[2] = y + (k - 1) * qLine
       /\ \A k \in DOMAIN authors :
              authors[k].geom[2] = y + Len(quotes) * qLine + aSize * 60

\* C22: a render runs clip, background, decorations, layout accent,
\* text-color resolution, wrapping, start-y clamping, the quote lines top
\* to bottom and the author line in this order, none repeated; the colors
\* are sampled from the canvas as the background, the decorations and the
\* accent left it, before any text is drawn.
C22_StepOrder ==
    (pc = "done" /\ "ops" \in DOMAIN ret)
    => /\ InStepOrder(ret)
       /\ ColorsOfDrawnCanvas(ret, args.design.palette)
       /\ TextTopToBottom(ret, args.design)

C22_Witness ==
    /\ pc = "done" /\ "ops" \in DOMAIN ret
    /\ Len(OpsOfStep(ret, "quote")) >= 3
    /\ Len(OpsOfStep(ret, "author")) = 1
    /\ Len(OpsOfStep(ret, "accent")) = 1
    /\ Len(OpsOfStep(ret, "decorations")) = 1
    /\ Len(OpsOfStep(ret, "background")) = 2

\* the cards a listener drew: those of domCards it built or changed
DrawnByStep == {i \in DOMAIN domCards' : i \notin DOMAIN domCards \/ domCards'[i] # domCards[i]}

\* the Design of a card is one of the pack, and a card of the minimal pack
\* has no decorations
OfPack(card, pack) ==
    /\ card.drawn.design.bgType \in Range(STYLE_PACKS[pack].bgTypes)
    /\ card.drawn.design.layout \in Range(STYLE_PACKS[pack].layouts)
    /\ pack = "minimal" => OpsOfStep(card.canvas, "decorations") = <<>>

\* C23: whatever the sequence of events on the generator page, a card
\* rendered while a style pack is selected has a Design whose bgType and
\* layout are of that pack, and under minimal it has no decorations.
C23_CardsOfSelectedPack ==
    [][\A i \in DrawnByStep : OfPack(domCards'[i], stylePack')]_vars

\* C23 for the listeners that regenerate the designs: Generate, a count
\* change and a style pack change
C23_CardsOfSelectedPack_Regenerated ==
    [][designsCache' # designsCache
       => \A i \in DrawnByStep : OfPack(domCards'[i], stylePack')]_vars

\* the decorations alone follow the selected pack at every render
C23_MinimalNoDecorations ==
    [][\A i \in DrawnByStep :
           stylePack' = "minimal" => OpsOfStep(domCards'[i].canvas, "decorations") = <<>>]_vars

(***************************************************************************)
(* The wall pages.  The paginated wall (page.tsx:36-720) loads the feed a  *)
(* page at a time with fetchPage; the realtime wall (page.tsx:890-1623)    *)
(* takes every snapshot of the feed whole.                                 *)
(*                                                                         *)
(* A record of the feed is [id, createdAt] here: its push key, a number    *)
(* in key order, and its createdAt, a number in the order of the ISO       *)
(* strings (which is the order of their Date values and the order the      *)
(* database index keeps them in).  The other fields of a record play no    *)
(* part in loading.  A list of records is in key order when it comes from  *)
(* snap.val(): val() builds its object child by child in key order.        *)
(***************************************************************************)
pageSize == 15

\* list.sort((a, b) => new Date(b.createdAt).getTime()
\*                     - new Date(a.createdAt).getTime()), a stable sort
\* the list as val() gave it, in key order
sortSkipped(list) == list

sortNewestFirst(list) ==
    With(list, LAMBDA l :
        \* the place of item i: after the newer items and after the items of
        \* its createdAt that came before it
        With([i \in DOMAIN l |->
                 1 + Cardinality({j \in DOMAIN l :
                                     \/ l[j].createdAt > l[i].createdAt
                                     \/ (l[j].createdAt = l[i].createdAt /\ j < i)})],
             LAMBDA place :
                 [k \in 1..Len(l) |-> l[CHOOSE i \in DOMAIN l : place[i] = k]]))

\* get(query(wallRef, orderByChild("createdAt"), [endAt(earliest),]
\* limitToLast(limit))).val(), earliest NULL without endAt: the last limit
\* children by (createdAt, key) of those up to earliest
queryLast(db, earliest, limit) ==
    LET upto == {c \in Range(db) : earliest = NULL \/ c.createdAt <= earliest}
        after(c) == {d \in upto : \/ d.createdAt > c.createdAt
                                   \/ (d.createdAt = c.createdAt /\ d.id > c.id)}
        taken == {c \in upto : Cardinality(after(c)) < limit}
    IN SelectSeq(db, LAMBDA c : c \in taken)

\* the first n items of a list: list.slice(0, n)
slice0(list, n) == SubSeq(list, 1, Min(n, Len(list)))

\* fetchPage up to its await: setLoadingMore(true) or setLoading(true)
fetchPageCalled(st, earliest) ==
    IF earliest # NULL THEN [st EXCEPT !.loadingMore = TRUE]
    ELSE [st EXCEPT !.loading = TRUE]

\* fetchPage with its no-data return outside the try ... finally
fetchPageReturnsEarly(st, call, db, outcome) ==
    LET initial == call.earliest = NULL
        finally(s) == [s EXCEPT !.loading = FALSE, !.loadingMore = FALSE]
        noData == [st EXCEPT !.cards = IF initial THEN <<>> ELSE @, !.hasMore = FALSE]
        snap == queryLast(db, call.earliest, IF initial THEN pageSize ELSE pageSize + 1)
        exists == IF outcome = "indexed" THEN snap # <<>> ELSE db # <<>>
        older == SelectSeq(sortNewestFirst(db), LAMBDA c : c.createdAt < call.earliest)
        fetched == IF outcome = "indexed" THEN sortNewestFirst(snap)
                   ELSE IF initial THEN slice0(sortNewestFirst(db), pageSize)
                   ELSE slice0(older, pageSize)
    IN IF outcome = "failed" THEN finally(st)
       ELSE IF ~exists THEN noData
       ELSE With(fetched, LAMBDA all :
              LET list == IF ~initial /\ Len(all) > pageSize THEN Tail(all) ELSE all
              IN finally([st EXCEPT
                              !.cards = IF initial THEN list ELSE call.cards \o list,
                              !.hasMore = Len(list) >= pageSize]))

\* fetchPage from its await on.  st is the state of the page,
\* [cards, loading, loadingMore, hasMore]; call is [earliest, cards], the
\* argument (NULL for none) and the cards of the render the call was made
\* in; db is the feed; outcome is "indexed" when the query answers,
\* "fallback" when it throws and the read of the whole node answers, and
\* "failed" when that read throws too.
fetchPage(st, call, db, outcome) ==
    LET initial == call.earliest = NULL
        finally(s) == [s EXCEPT !.loading = FALSE, !.loadingMore = FALSE]
        noData == [st EXCEPT !.cards = IF initial THEN <<>> ELSE @, !.hasMore = FALSE]
        snap == queryLast(db, call.earliest, IF initial THEN pageSize ELSE pageSize + 1)
        exists == IF outcome = "indexed" THEN snap # <<>> ELSE db # <<>>
        older == SelectSeq(sortNewestFirst(db), LAMBDA c : c.createdAt < call.earliest)
        fetched == IF outcome = "indexed" THEN sortNewestFirst(snap)
                   ELSE IF initial THEN slice0(sortNewestFirst(db), pageSize)
                   ELSE slice0(older, pageSize)
    IN IF outcome = "failed" THEN finally(st)
       ELSE IF ~exists THEN finally(noData)
       ELSE With(fetched, LAMBDA all :
              LET list == IF ~initial /\ Len(all) > pageSize THEN Tail(all) ELSE all
              IN finally([st EXCEPT
                              !.cards = IF initial THEN list ELSE call.cards \o list,
                              !.hasMore = Len(list) >= pageSize]))

\* onValue's callback of the realtime wall on a snapshot of the feed
onSnapshot(db) ==
    [cards |-> IF db = <<>> THEN <<>> ELSE sortNewestFirst(db), loading |-> FALSE]

(***************************************************************************)
(* Specification SpecWall: the two wall pages from their mount on, over a  *)
(* feed that stays as it is until its node is removed.  The mount effect   *)
(* has called fetchPage() and attached the first observer.  A state        *)
(* update is committed at once; the effect that replaces the observer      *)
(* runs later, as a step of its own, and until then the attached observer  *)
(* calls back with the state of the render it was made in.  Up to          *)
(* MaxInFlight calls of fetchPage wait at a time.                          *)
(*                                                                         *)
(* The feeds: n records with createdAt rising in key order, where the      *)
(* records lo..hi share the createdAt of lo.                               *)
(***************************************************************************)
MaxInFlight == 2

WallFeed(n, lo, hi) ==
    [i \in 1..n |-> [id |-> i, createdAt |-> IF i \in lo..hi THEN lo ELSE i]]

FeedSizes == {0, 1, pageSize - 1, pageSize, pageSize + 1, pageSize + 2,
              2 * pageSize + 1, 2 * pageSize + 2}

\* no records sharing a createdAt, or two of them: the oldest of the first
\* page with the record before it, or with the record after it
WallFeeds ==
    {WallFeed(n, 0, 0) : n \in FeedSizes}
    \cup {WallFeed(n, n - pageSize, n - pageSize + 1) : n \in FeedSizes \ 0..pageSize}
    \cup {WallFeed(n, n - pageSize + 1, n - pageSize + 2) : n \in FeedSizes \ 0..pageSize}

WallState ==
    [cards |-> cards, loading |-> loading, loadingMore |-> loadingMore,
     hasMore |-> hasMore]

\* setCards, setLoading, setLoadingMore, setHasMore of one handler
WallSet(st) ==
    /\ cards' = st.cards
    /\ loading' = st.loading
    /\ loadingMore' = st.loadingMore
    /\ hasMore' = st.hasMore

InitWall ==
    /\ pc = "page" /\ args = <<>> /\ locals = <<>> /\ ret = <<>>
    /\ ControlsAtDefault /\ NoCards
    /\ stylePack = "balanced"
    /\ quoteSize = 95 /\ authorSize = 105
    /\ now = 0 /\ prng = 1
    /\ uploads = <<>> /\ drag = NoDrag
    /\ feed \in WallFeeds
    /\ cards = <<>> /\ loading = TRUE /\ loadingMore = FALSE /\ hasMore = TRUE
    /\ observer = [cards |-> <<>>, hasMore |-> TRUE, loadingMore |-> FALSE]
    /\ fetches = <<[earliest |-> NULL, cards |-> <<>>]>>
    /\ realtime = [cards |-> <<>>, loading |-> TRUE]

\* the callback of the attached IntersectionObserver on an intersecting
\* entry: the guard and the cards are those of the observer's render
SentinelIntersects ==
    /\ Len(fetches) < MaxInFlight
    /\ observer.hasMore /\ ~observer.loadingMore /\ Len(observer.cards) > 0
    /\ \E call \in {[earliest |-> observer.cards[Len(observer.cards)].createdAt,
                     cards |-> observer.cards]} :
          /\ fetches' = Append(fetches, call)
          /\ \E st \in {fetchPageCalled(WallState, call.earliest)} : WallSet(st)
    /\ UNCHANGED <<domVars, cardVars, envVars, callVars, feed, uploads, drag,
                   observer, realtime>>

\* the effect of [cards, hasMore, loadingMore] after a render that changed
\* one of them: the old observer is disconnected and a new one attached
ObserverEffect ==
    /\ observer # [cards |-> cards, hasMore |-> hasMore, loadingMore |-> loadingMore]
    /\ observer' = [cards |-> cards, hasMore |-> hasMore, loadingMore |-> loadingMore]
    /\ UNCHANGED <<domVars, cardVars, envVars, callVars, feed, uploads, drag,
                   cards, loading, loadingMore, hasMore, fetches, realtime>>

\* the call k of fetchPage runs on from its await to its end
Settles(k, outcome) ==
    /\ fetches' = SubSeq(fetches, 1, k - 1) \o SubSeq(fetches, k + 1, Len(fetches))
    /\ \E st \in {fetchPage(WallState, fetches[k], feed, outcome)} : WallSet(st)
    /\ UNCHANGED <<domVars, cardVars, envVars, callVars, feed, uploads, drag,
                   observer, realtime>>

FetchLoads == \E k \in DOMAIN fetches : Settles(k, "indexed")
FetchFallsBack == \E k \in DOMAIN fetches : Settles(k, "fallback")
FetchFails == \E k \in DOMAIN fetches : Settles(k, "failed")

\* the realtime wall's onValue callback
Snapshot ==
    /\ realtime # onSnapshot(feed)
    /\ realtime' = onSnapshot(feed)
    /\ UNCHANGED <<domVars, cardVars, envVars, callVars, feed, uploads, drag,
                   cards, loading, loadingMore, hasMore, observer, fetches>>

\* the praiseWall node is removed from the database
FeedRemoved ==
    /\ feed # <<>>
    /\ feed' = <<>>
    /\ UNCHANGED <<domVars, cardVars, envVars, callVars, uploads, drag, wallVars>>

NextWall ==
    \/ SentinelIntersects \/ ObserverEffect
    \/ FetchLoads \/ FetchFallsBack \/ FetchFails
    \/ Snapshot \/ FeedRemoved

SpecWall == InitWall /\ [][NextWall]_vars

\* no card id is twice in the list
NoCardTwice(list) == \A i, j \in DOMAIN list : list[i].id = list[j].id => i = j

\* C24: after any sequence of page loads no card id appears twice in the
\* card list of the paginated wall: the record at the page boundary, which
\* the next page fetches again, is dropped from every fetched page, a short
\* last page included.
C24_NoCardTwice == NoCardTwice(cards)

\* C24 for the loads whose query returned pageSize + 1 records with no
\* createdAt shared at the boundary, one after the other: the list a
\* load-more extends has no card twice if its page has none of its cards
C24_NoCardTwice_FullPages ==
    [][\A k \in DOMAIN fetches :
           LET call == fetches[k]
               snap == queryLast(feed, call.earliest, pageSize + 1)
           IN (/\ Settles(k, "indexed")
               /\ call.earliest # NULL
               /\ call.cards = cards
               /\ NoCardTwice(cards)
               /\ Len(snap) = pageSize + 1
               /\ Cardinality({c \in Range(feed) : c.createdAt = call.earliest}) = 1)
              => NoCardTwice(cards')]_vars

\* createdAt is non-increasing along the list
NewestFirst(list) ==
    \A i \in DOMAIN list : i < Len(list) => list[i].createdAt >= list[i + 1].createdAt

\* C25: the card list of a wall is ordered newest-first after every
\* update: after the initial load, after every page a load-more appends
\* (from the indexed query or from the unindexed fallback) and after every
\* realtime snapshot.
C25_NewestFirst == NewestFirst(cards) /\ NewestFirst(realtime.cards)

C25_Witness ==
    /\ Len(cards) > 2 * pageSize
    /\ fetches = <<>>
    /\ Len(realtime.cards) > pageSize

(***************************************************************************)
(* Specification SpecWallLive: the paginated wall over a feed that stays   *)
(* as it is, with every read answered, by the query or by the fallback.    *)
(* The sentinel stays in view: an observer that is attached and passes     *)
(* its guard calls back; React runs a pending effect; a call of fetchPage  *)
(* that waits is answered.                                                 *)
(***************************************************************************)
NextWallLive ==
    \/ SentinelIntersects \/ ObserverEffect
    \/ FetchLoads \/ FetchFallsBack

SpecWallLive ==
    /\ InitWall /\ [][NextWallLive]_vars
    /\ WF_vars(SentinelIntersects)
    /\ WF_vars(ObserverEffect)
    /\ WF_vars(FetchLoads \/ FetchFallsBack)

\* every record of the feed is in the card list
AllLoaded == \A c \in Range(feed) : \E i \in DOMAIN cards : cards[i] = c

\* C26: for every finite feed, if the sentinel keeps triggering load-more,
\* hasMore becomes false after finitely many page loads, and then every
\* record of the feed is in the card list: none is skipped, the records
\* that share their createdAt with the page boundary included.
C26_LoadsWholeFeed == <>(~hasMore) /\ [](~hasMore => AllLoaded)

\* the two halves of C26, each on its own
C26_HasMoreEnds == <>(~hasMore)
C26_NoneSkipped == ~hasMore => AllLoaded

\* C26 for the feeds in which no two records share a createdAt
DistinctCreatedAt ==
    \A i, j \in DOMAIN feed : feed[i].createdAt = feed[j].createdAt => i = j
C26_LoadsWholeFeed_DistinctCreatedAt ==
    /\ DistinctCreatedAt => <>(~hasMore)
    /\ [](DistinctCreatedAt /\ ~hasMore => AllLoaded)

\* the load-more calls of fetchPage that wait at their await
LoadMoresInFlight == {k \in DOMAIN fetches : fetches[k].earliest # NULL}

\* list is the start of longer
StartsWith(longer, list) ==
    Len(list) <= Len(longer) /\ SubSeq(longer, 1, Len(list)) = list

\* C27: under every interleaving of sentinel callbacks, state updates and
\* fetch completions the card list is the one that loads made one at a
\* time produce: no load-more starts while another is in flight, and a
\* step only ever appends to the list, so that no loaded page is
\* overwritten or lost.
C27_OneLoadAtATime ==
    [][/\ Cardinality(LoadMoresInFlight') <= 1
       /\ StartsWith(cards', cards)]_vars

\* the two halves of C27, each on its own
C27_GuardHolds == Cardinality(LoadMoresInFlight) <= 1
C27_NoPageLost == [][StartsWith(cards', cards)]_vars

\* a call of fetchPage runs to its end
FetchSettles == FetchLoads \/ FetchFallsBack \/ FetchFails

\* a load-more call is answered and finds no data
LoadMoreFindsNoData ==
    \E k \in DOMAIN fetches :
        /\ fetches[k].earliest # NULL
        /\ feed = <<>>
        /\ Settles(k, "indexed") \/ Settles(k, "fallback")

\* C28: every call of fetchPage, whether it loads data, finds none, falls
\* back to the unindexed read or fails, ends with loading = false and
\* loadingMore = false; a call that fails leaves the card list as it is,
\* and a load-more call that finds no data leaves the card list as it is
\* and sets hasMore = false.
C28_FetchPageEnds ==
    [][/\ FetchSettles => ~loading' /\ ~loadingMore'
       /\ FetchFails => cards' = cards
       /\ LoadMoreFindsNoData => cards' = cards /\ ~hasMore']_vars

\* a load-more found the feed removed after a first page of pageSize cards
C28_Witness ==
    /\ feed = <<>> /\ fetches = <<>>
    /\ Len(cards) = pageSize
    /\ cards[Len(cards)].createdAt > 1
    /\ cards[Len(cards)].id = cards[Len(cards)].createdAt
    /\ ~hasMore /\ ~loading /\ ~loadingMore

(***************************************************************************)
(* Specification SpecPublishUi: the generator page with all its controls   *)
(* and the Upload buttons of its cards.                                    *)
(***************************************************************************)
NextPublishUi == NextGen \/ UploadToWall \/ PushSettled

SpecPublishUi == InitGen /\ [][NextPublishUi]_vars

\* the calls of uploadToWall of this step that pushed a record
PushedByStep == {k \in DOMAIN uploads' \ DOMAIN uploads : uploads'[k].data # <<>>}

\* the record has the Design the card's canvas was last drawn from
DesignAsDrawn(rec, drawn) ==
    /\ rec.palette = drawn.design.palette /\ rec.gradient = drawn.design.gradient
    /\ rec.font = drawn.design.font /\ rec.bgType = drawn.design.bgType
    /\ rec.layout = drawn.design.layout /\ rec.seed = drawn.design.seed

\* the record has the quote and author (trimmed), the radius and the size
\* multipliers the card's canvas was last drawn with
ControlsAsDrawn(rec, drawn) ==
    /\ rec.quote = trim(drawn.quote) /\ rec.author = trim(drawn.author)
    /\ rec.radius = drawn.radius
    /\ rec.quoteSizeMultiplier = drawn.quoteMul
    /\ rec.authorSizeMultiplier = drawn.authorMul

\* C29: after any sequence of events on the generator page, the record
\* uploadToWall publishes for a card describes the raster the card shows:
\* its Design is the one last drawn on the canvas, and its quote, author,
\* radius and size multipliers are those of the canvas's latest render.
C29_RecordDescribesRaster ==
    [][\A k \in PushedByStep :
           LET rec == uploads'[k].data[1]
               drawn == domCards[uploads'[k].index + 1].drawn
           IN DesignAsDrawn(rec, drawn) /\ ControlsAsDrawn(rec, drawn)]_vars

\* the Design half of C29
C29_DesignAsDrawn ==
    [][\A k \in PushedByStep :
           DesignAsDrawn(uploads'[k].data[1],
                         domCards[uploads'[k].index + 1].drawn)]_vars

\* a step that edits the quote, the author, the radius or a size slider,
\* or changes the format
EditStep ==
    \/ quoteText' # quoteText \/ authorText' # authorText
    \/ radiusSelect' # radiusSelect
    \/ quoteSize' # quoteSize \/ authorSize' # authorSize
    \/ formatSelect' # formatSelect

\* designsCache and cardState have one item per card, and after a step
\* that rebuilt the cards as many items as there are cards on the page
OnePerCard ==
    /\ Len(designsCache') = Len(cardState')
    /\ domCards' # domCards => Len(domCards') = Len(designsCache')

\* C30: editing the quote, the author, the radius or a size slider, or
\* changing the format, never replaces designsCache or resets cardState
\* (Generate, a count change and a style pack change do); designsCache and
\* cardState have the same length, which is the number of cards on the page
\* after a full rebuild.
C30_EditsKeepDesigns ==
    [][/\ EditStep => designsCache' = designsCache /\ cardState' = cardState
       /\ OnePerCard]_vars

\* C30 for the edits made while designsCache has one Design per requested
\* card, and the length half of C30 on its own
C30_EditsKeepDesigns_CountInSync ==
    [][(EditStep /\ Len(designsCache) = countSelect)
       => designsCache' = designsCache /\ cardState' = cardState]_vars
C30_OnePerCard == [][OnePerCard]_vars

====
